---- MODULE Spec2Model ----
(***************************************************************************)
(* DS-STAR: the iterative solving engine (src/ds_star.py) and the services *)
(* it drives (src/ds_star_core/services.py).                               *)
(*                                                                         *)
(* Texts are sequences of one-character strings, so that strip(), lower(), *)
(* substring search and int() are computed as Python computes them.        *)
(***************************************************************************)
EXTENDS Integers, Sequences, FiniteSets, TLC

\* ------------------------------------------------------------------------
\* Bounds of the model
\* ------------------------------------------------------------------------
\* max_refinement_rounds is drawn from 0..MaxRounds
MaxRounds == 3
\* max_debug_attempts is drawn from 0..MaxAttempts
MaxAttempts == 2

\* ------------------------------------------------------------------------
\* Text primitives (Python str)
\* ------------------------------------------------------------------------
\* Python None, as a value no text equals
None == <<"<None>">>

Min(a, b) == IF a <= b THEN a ELSE b
Max(a, b) == IF a >= b THEN a ELSE b

Whitespace == {" ", "\n", "\t"}

UpperCase == <<"A", "B", "C", "D", "E", "F", "G", "H", "I", "J", "K", "L", "M",
               "N", "O", "P", "Q", "R", "S", "T", "U", "V", "W", "X", "Y", "Z">>
LowerCase == <<"a", "b", "c", "d", "e", "f", "g", "h", "i", "j", "k", "l", "m",
               "n", "o", "p", "q", "r", "s", "t", "u", "v", "w", "x", "y", "z">>

\* str.lower() on one character
LowerChar(c) ==
    IF \E i \in 1..Len(UpperCase) : UpperCase[i] = c
    THEN LowerCase[CHOOSE i \in 1..Len(UpperCase) : UpperCase[i] = c]
    ELSE c

\* the element of a one-element set; {F(v) : v \in {e}} evaluates e once
Only(S) == CHOOSE x \in S : TRUE

\* str.lower()
Lower(text) == Only({ [i \in 1..Len(s) |-> LowerChar(s[i])] : s \in {text} })

\* str.strip(): drop leading and trailing whitespace
Strip(text) ==
    Only({ LET keep == {i \in 1..Len(s) : s[i] \notin Whitespace}
           IN  IF keep = {} THEN <<>>
               ELSE LET lo == CHOOSE i \in keep : \A j \in keep : i <= j
                        hi == CHOOSE i \in keep : \A j \in keep : j <= i
                    IN  SubSeq(s, lo, hi)
           : s \in {text} })

\* Python truthiness of an optional text: None and "" are falsy
Truthy(v) == v # None /\ v # <<>>

\* a or b
Or(a, b) == IF Truthy(a) THEN a ELSE b

\* `sub in s`
Contains(text, sub) ==
    \E s \in {text} :
        \E i \in 0..(Len(s) - Len(sub)) : SubSeq(s, i + 1, i + Len(sub)) = sub

\* _normalize_text: value.strip() if value else ""
_normalize_text(value) ==
    Only({ IF Truthy(v) THEN Strip(v) ELSE <<>> : v \in {value} })

Digits == <<"0", "1", "2", "3", "4", "5", "6", "7", "8", "9">>
IsDigit(c) == \E i \in 1..Len(Digits) : Digits[i] = c
DigitValue(c) == (CHOOSE i \in 1..Len(Digits) : Digits[i] = c) - 1

RECURSIVE DigitsValue(_)
\* value of a digit string in base 10, "_" separators skipped
DigitsValue(s) ==
    IF s = <<>> THEN 0
    ELSE LET c == s[Len(s)]
             rest == SubSeq(s, 1, Len(s) - 1)
         IN  IF c = "_" THEN DigitsValue(rest)
             ELSE 10 * DigitsValue(rest) + DigitValue(c)

\* the digit part of a Python integer literal: digits, single "_" between digits
IsIntBody(s) ==
    /\ s # <<>>
    /\ \A i \in 1..Len(s) : IsDigit(s[i]) \/ s[i] = "_"
    /\ IsDigit(s[1]) /\ IsDigit(s[Len(s)])
    /\ \A i \in 1..(Len(s) - 1) : ~(s[i] = "_" /\ s[i + 1] = "_")

\* int(text): [ok |-> parsed without ValueError, val |-> the integer]
ParseInt(text) ==
    Only({ LET signed == t # <<>> /\ t[1] \in {"+", "-"}
               body == IF signed THEN SubSeq(t, 2, Len(t)) ELSE t
           IN  IF IsIntBody(body)
               THEN [ok |-> TRUE,
                     val |-> IF signed /\ t[1] = "-" THEN 0 - DigitsValue(body)
                             ELSE DigitsValue(body)]
               ELSE [ok |-> FALSE, val |-> 0]
           : t \in {Strip(text)} })

\* ------------------------------------------------------------------------
\* Pure functions of the services
\* ------------------------------------------------------------------------
AddStep == <<"a", "d", "d", " ", "s", "t", "e", "p">>

truncate_plan_rollback_off_by_one(plan, decision) ==
    IF ~Truthy(decision) THEN plan
    ELSE IF Lower(Strip(decision)) = AddStep THEN plan
    ELSE IF ~ParseInt(decision).ok THEN plan
    ELSE IF ParseInt(decision).val <= 0 THEN <<>>
    ELSE SubSeq(plan, 1, Min(Len(plan), ParseInt(decision).val - 1))

truncate_plan_malformed_empties(plan, decision) ==
    IF ~Truthy(decision) THEN plan
    ELSE IF Lower(Strip(decision)) = AddStep THEN plan
    ELSE IF ~ParseInt(decision).ok THEN <<>>
    ELSE IF ParseInt(decision).val <= 0 THEN <<>>
    ELSE SubSeq(plan, 1, Min(Len(plan), ParseInt(decision).val))

\* PlanningService.truncate_plan
truncate_plan(plan, decision) ==
    IF ~Truthy(decision) THEN plan
    ELSE IF Lower(Strip(decision)) = AddStep THEN plan
    ELSE IF ~ParseInt(decision).ok THEN plan
    ELSE IF ParseInt(decision).val <= 0 THEN <<>>
    ELSE SubSeq(plan, 1, Min(Len(plan), ParseInt(decision).val))

SUFFICIENT == "SUFFICIENT"
INSUFFICIENT == "INSUFFICIENT"

WordInsufficient == <<"i", "n", "s", "u", "f", "f", "i", "c", "i", "e", "n", "t">>
WordSufficient == <<"s", "u", "f", "f", "i", "c", "i", "e", "n", "t">>

evaluate_sufficient_first(verifier_text) ==
    Only({ LET normalized == Lower(response)
           IN  [result |-> IF Contains(normalized, WordSufficient) THEN SUFFICIENT
                           ELSE INSUFFICIENT,
                response |-> response]
           : response \in {_normalize_text(verifier_text)} })

\* VerificationService.evaluate, given what verifier.verify returned
evaluate(verifier_text) ==
    Only({ LET normalized == Lower(response)
           IN  [result |-> IF Contains(normalized, WordInsufficient) THEN INSUFFICIENT
                           ELSE IF Contains(normalized, WordSufficient) THEN SUFFICIENT
                           ELSE INSUFFICIENT,
                response |-> response]
           : response \in {_normalize_text(verifier_text)} })

\* ExecutionResult(success, output, error, traceback)
ExecutionResult(success, output, error, traceback) ==
    [success |-> success, output |-> output, error |-> error, traceback |-> traceback]

\* state.get("last_execution") when the key is absent
NoExecution == [absent |-> TRUE]

_execution_observation_output_first(execution) ==
    IF execution = NoExecution THEN <<>>
    ELSE IF execution.success THEN Strip(Or(execution.output, <<>>))
    ELSE Strip(Or(Or(execution.output, execution.error), <<>>))

\* DSSTAR._execution_observation
_execution_observation(execution) ==
    IF execution = NoExecution THEN <<>>
    ELSE IF execution.success THEN Strip(Or(execution.output, <<>>))
    ELSE Strip(Or(Or(execution.error, execution.output), <<>>))

\* ------------------------------------------------------------------------
\* Collaborators: what the Sandbox and the generation capability may return
\* ------------------------------------------------------------------------
OkOut == <<" ", "4", "2", "\n">>
ErrText == <<"E", "r", "r", "\n">>
PartialOut == <<"o", "u", "t", "\n">>

\* PythonScriptRunner.run: exit code 0 with stdout; non-zero exit with stderr
RunOutcomes ==
    { ExecutionResult(TRUE, OkOut, None, None),
      ExecutionResult(FALSE, PartialOut, ErrText, ErrText) }

\* raw texts of the verification capability
VerifierTexts ==
    { <<"S", "u", "f", "f", "i", "c", "i", "e", "n", "t", ".">>,
      <<" ", "I", "N", "S", "U", "F", "F", "I", "C", "I", "E", "N", "T", "\n">>,
      <<"u", "n", "c", "l", "e", "a", "r">> }

\* raw texts of the routing capability
RouterTexts ==
    { <<"A", "d", "d", " ", "S", "t", "e", "p">>,
      <<"0">>, <<"1">>, <<" ", "2", "\n">>,
      <<"t", "w", "o">> }

\* attached data files of a solve call
DataFileLists == { <<>>, <<"a.csv">> }

\* a generated text is identified by the capability that produced it and by
\* the ordinal of the call
Generated(by, n) == [by |-> by, n |-> n]
NoCode == Generated("absent", 0)

Absent == "absent"

\* ------------------------------------------------------------------------
\* State
\* ------------------------------------------------------------------------
VARIABLES
    config,     \* DSSTAR.__init__ arguments and which prompts exist
    node,       \* the graph node to run next ("END" after finalize)
    state,      \* DSStarState of the running solve call
    an,         \* frame of AnalyzerService.analyze_files / _analyze_file
    ex,         \* frame of SolutionExecutionService.execute
    hist,       \* history: counts of what the run has done so far, and the
                \* error that ended it
    call,       \* the last direct call of a pure service function, with its result
    other       \* a second solve call on the same engine, while it is not running

vars == <<config, node, state, an, ex, hist, call, other>>

\* DSSTAR.__init__
Configs ==
    [ max_refinement_rounds : 0..MaxRounds,
      max_debug_attempts : 0..MaxAttempts,
      use_retriever : {FALSE},
      top_k_files : {10},
      analyzer_debugger_configured : BOOLEAN,
      solution_debugger_configured : BOOLEAN,
      unconfigured : {"none"} ]

\* AgentBundle.create: the prompt of `key` was found by load_prompts
Configured(cfg, key) == cfg.unconfigured # key

\* DSSTAR.solve: initial_state. The keys final_plan and
\* final_execution_results are absent until finalize; their only reader is
\* `get(...) or ...` in solve, under which an absent key reads as an empty list
InitialState(data_files) ==
    [ query |-> "q1",
      data_files |-> data_files,
      data_descriptions |-> <<>>,
      plan |-> <<>>,
      code |-> NoCode,
      last_execution |-> NoExecution,
      execution_results |-> <<>>,
      iteration |-> 0,
      verification |-> Absent,
      verifier_response |-> None,
      router_decision |-> None,
      finalization_reason |-> Absent,
      final_code |-> NoCode,
      final_plan |-> <<>>,
      final_execution_results |-> <<>> ]

NoCall == [fn |-> "none"]

\* no second solve call has been made
NoSession == [id |-> 0]

\* nothing has happened yet in the run
NoHistory == [verifies |-> 0, insufficient |-> 0, executes |-> 0,
              routes |-> 0, finalizes |-> 0, error |-> "none", error_at |-> "none",
              planner_given |-> <<>>, ran_code |-> NoCode]

IdleFrame == [pc |-> "idle", attempt |-> 0, current_script |-> NoCode,
              last_result |-> NoExecution, runs |-> 0, fixes |-> 0, ran |-> NoCode]

Init ==
    /\ config \in Configs
    /\ node = "analyze"
    /\ \E files \in DataFileLists : state = InitialState(files)
    /\ an = [pc |-> "next", idx |-> 0, attempt |-> 0, current_script |-> NoCode,
             description |-> <<>>, descriptions |-> <<>>, result |-> NoExecution,
             runs |-> 0, fixes |-> 0, ran |-> NoCode]
    /\ ex = IdleFrame
    /\ hist = NoHistory
    /\ call = NoCall
    /\ other = NoSession

\* ------------------------------------------------------------------------
\* Analyze: AnalyzerService.analyze_files, one Debug-Retry loop per file
\* ------------------------------------------------------------------------
RECURSIVE IntText(_)
\* str(n) for n >= 0
IntText(n) == IF n < 10 THEN <<Digits[n + 1]>>
              ELSE IntText(n \div 10) \o <<Digits[(n % 10) + 1]>>

ErrorHead == <<"E", "R", "R", "O", "R", ":", " ", "F", "a", "i", "l", "e", "d", " ",
               "t", "o", " ", "a", "n", "a", "l", "y", "z", "e", " ", "f", "i", "l",
               "e", " ", "a", "f", "t", "e", "r", " ">>
ErrorTail == <<" ", "a", "t", "t", "e", "m", "p", "t", "s", ".", "\n">>

\* the description of a file whose attempt failed with no fixer left
ErrorDescription(max_attempts, result) ==
    ErrorHead \o IntText(max_attempts) \o ErrorTail
        \o _normalize_text(Or(result.error, result.output))

DataDescription_error_when_empty(file_path, description, script) ==
    [file_path |-> file_path,
     description |-> IF description = <<>>
                     THEN ErrorHead \o <<"0">> \o ErrorTail ELSE description,
     script |-> script]

\* DataDescription(file_path=..., description=..., script=...)
DataDescription(file_path, description, script) ==
    [file_path |-> file_path, description |-> description, script |-> script]

_retrieve_relevant_last_k(cfg, query, descriptions) ==
    SubSeq(descriptions, Len(descriptions) - Min(Len(descriptions), cfg.top_k_files) + 1,
           Len(descriptions))

\* AnalyzerService._retrieve_relevant; the query is not used
_retrieve_relevant(cfg, query, descriptions) ==
    IF cfg.top_k_files >= 0
    THEN SubSeq(descriptions, 1, Min(Len(descriptions), cfg.top_k_files))
    ELSE SubSeq(descriptions, 1, Max(Len(descriptions) + cfg.top_k_files, 0))

\* AnalyzerService.select_relevant
select_relevant(cfg, query, descriptions) ==
    IF ~(cfg.use_retriever /\ Len(descriptions) > cfg.top_k_files)
    THEN descriptions
    ELSE _retrieve_relevant(cfg, query, descriptions)

\* AnalyzerService._can_debug_analyzer
_can_debug_analyzer(cfg, attempt) ==
    /\ attempt < cfg.max_debug_attempts - 1
    /\ cfg.analyzer_debugger_configured

AnalyzeIdle == [pc |-> "idle", idx |-> 0, attempt |-> 0, current_script |-> NoCode,
                description |-> <<>>, descriptions |-> <<>>,
                result |-> NoExecution, runs |-> 0, fixes |-> 0, ran |-> NoCode]

analyze_attempt_keeps_first_error(cfg, f, result) ==
    IF result.success
    THEN [f EXCEPT !.pc = "return", !.runs = @ + 1, !.ran = f.current_script, !.result = result,
                   !.description = _normalize_text(result.output)]
    ELSE IF _can_debug_analyzer(cfg, f.attempt)
    THEN [f EXCEPT !.runs = @ + 1, !.ran = f.current_script, !.result = result,
                   !.fixes = @ + 1, !.attempt = @ + 1,
                   !.current_script = Generated("debugger_analyzer", f.fixes + 1)]
    ELSE [f EXCEPT !.runs = @ + 1, !.ran = f.current_script, !.result = result, !.attempt = @ + 1,
                   !.description =
                       IF @ = <<>>
                       THEN ErrorDescription(cfg.max_debug_attempts, result)
                       ELSE @]

\* the body of the loop of _analyze_file for one attempt, given what the
\* Sandbox returned: the frame of _analyze_file after it
analyze_attempt(cfg, f, result) ==
    IF result.success
    THEN [f EXCEPT !.pc = "return", !.runs = @ + 1, !.ran = f.current_script, !.result = result,
                   !.description = _normalize_text(result.output)]
    ELSE IF _can_debug_analyzer(cfg, f.attempt)
    THEN [f EXCEPT !.runs = @ + 1, !.ran = f.current_script, !.result = result,
                   !.fixes = @ + 1, !.attempt = @ + 1,
                   !.current_script = Generated("debugger_analyzer", f.fixes + 1)]
    ELSE [f EXCEPT !.runs = @ + 1, !.ran = f.current_script, !.result = result, !.attempt = @ + 1,
                   !.description = ErrorDescription(cfg.max_debug_attempts, result)]

\* _analyze_file up to the loop: the analyzer generates the inspection script
AnalyzeStartFile ==
    /\ node = "analyze"
    /\ an.pc = "next"
    /\ an.idx < Len(state.data_files)
    /\ Configured(config, "analyzer")
    /\ an' = [an EXCEPT !.pc = "loop", !.idx = @ + 1, !.attempt = 0,
                        !.current_script = Generated("analyzer", an.idx + 1),
                        !.description = <<>>, !.result = NoExecution,
                        !.runs = 0, !.fixes = 0, !.ran = NoCode]
    /\ UNCHANGED <<other, call, config, node, state, ex, hist>>

\* one iteration of the loop of _analyze_file
AnalyzeAttempt ==
    /\ node = "analyze"
    /\ an.pc = "loop"
    /\ an.attempt < config.max_debug_attempts
    /\ \E result \in RunOutcomes : an' = analyze_attempt(config, an, result)
    /\ UNCHANGED <<other, call, config, node, state, ex, hist>>

\* the loop of _analyze_file is left (break, or no attempt remains):
\* _analyze_file returns the DataDescription
AnalyzeFileReturn ==
    /\ node = "analyze"
    /\ \/ an.pc = "return"
       \/ an.pc = "loop" /\ an.attempt >= config.max_debug_attempts
    /\ an' = [an EXCEPT !.pc = "next",
                !.descriptions = Append(@,
                    DataDescription(state.data_files[an.idx], an.description,
                                    an.current_script))]
    /\ UNCHANGED <<other, call, config, node, state, ex, hist>>

\* every file is described: select_relevant, and _node_analyze returns
AnalyzeReturn ==
    /\ node = "analyze"
    /\ an.pc = "next"
    /\ an.idx = Len(state.data_files)
    /\ state' = [state EXCEPT
                   !.data_descriptions =
                       select_relevant(config, state.query, an.descriptions)]
    /\ an' = AnalyzeIdle
    /\ node' = "planner_initial"
    /\ UNCHANGED <<other, call, config, ex, hist>>

\* what the Sandbox may return to _analyze_file: the outcomes of RunOutcomes
\* and a non-zero exit that wrote nothing to stderr
SandboxResults ==
    RunOutcomes \cup { ExecutionResult(FALSE, PartialOut, <<>>, <<>>) }

\* one iteration of the loop of _analyze_file, over SandboxResults
AnalyzeAttemptAny ==
    /\ node = "analyze"
    /\ an.pc = "loop"
    /\ an.attempt < config.max_debug_attempts
    /\ \E result \in SandboxResults : an' = analyze_attempt(config, an, result)
    /\ UNCHANGED <<other, call, config, node, state, ex, hist>>

\* attached data files of a solve call, up to two
DataFilePairs == DataFileLists \cup { <<"a.csv", "b.csv">> }

\* _node_analyze alone: AnalyzerService.analyze_files over up to two files
AnalyzeInit ==
    /\ config \in Configs
    /\ node = "analyze"
    /\ \E files \in DataFilePairs : state = InitialState(files)
    /\ an = [pc |-> "next", idx |-> 0, attempt |-> 0, current_script |-> NoCode,
             description |-> <<>>, descriptions |-> <<>>, result |-> NoExecution,
             runs |-> 0, fixes |-> 0, ran |-> NoCode]
    /\ ex = IdleFrame
    /\ hist = NoHistory
    /\ call = NoCall
    /\ other = NoSession

AnalyzeNext ==
    \/ AnalyzeStartFile
    \/ AnalyzeAttemptAny
    \/ AnalyzeFileReturn
    \/ AnalyzeReturn

AnalyzeSpec == AnalyzeInit /\ [][AnalyzeNext]_vars

\* ------------------------------------------------------------------------
\* The graph nodes after Analyze
\* ------------------------------------------------------------------------
\* DSSTAR._node_planner_initial with PlanningService.generate_initial_plan
PlannerInitial ==
    /\ node = "planner_initial"
    /\ Configured(config, "planner_initial")
    /\ state' = [state EXCEPT !.plan = <<Generated("planner_initial", 0)>>]
    /\ node' = "coder_initial"
    /\ UNCHANGED <<other, call, config, an, ex, hist>>

\* DSSTAR._node_coder_initial
CoderInitial ==
    /\ node = "coder_initial"
    /\ Configured(config, "coder_initial")
    /\ state' = [state EXCEPT !.code = Generated("coder_initial", 0),
                              !.execution_results = <<>>]
    /\ node' = "execute"
    /\ UNCHANGED <<other, call, config, an, ex, hist>>

_can_debug_solution_any_attempt(cfg, attempt) ==
    cfg.solution_debugger_configured

\* SolutionExecutionService._can_debug_solution
_can_debug_solution(cfg, attempt) ==
    /\ attempt < cfg.max_debug_attempts - 1
    /\ cfg.solution_debugger_configured

ExecuteCommit_history_on_engine(st, code, exec_result) ==
    LET shared == IF other # NoSession
                     /\ Len(other.session.state.execution_results)
                            > Len(st.execution_results)
                  THEN other.session.state.execution_results
                  ELSE st.execution_results
    IN  [st EXCEPT !.code = code,
                   !.last_execution = exec_result,
                   !.execution_results =
                       Append(shared, _execution_observation(exec_result))]

ExecuteCommit_skips_failures(st, code, exec_result) ==
    [st EXCEPT !.code = code,
               !.last_execution = exec_result,
               !.execution_results =
                   IF exec_result.success
                   THEN Append(@, _execution_observation(exec_result)) ELSE @]

ExecuteCommit_keeps_latest_only(st, code, exec_result) ==
    [st EXCEPT !.code = code,
               !.last_execution = exec_result,
               !.execution_results = <<_execution_observation(exec_result)>>]

ExecuteCommit_clears_descriptions(st, code, exec_result) ==
    [st EXCEPT !.code = code,
               !.last_execution = exec_result,
               !.execution_results = Append(@, _execution_observation(exec_result)),
               !.data_descriptions = <<>>]

ExecuteCommit_one_per_attempt(st, code, exec_result) ==
    [st EXCEPT !.code = code,
               !.last_execution = exec_result,
               !.execution_results =
                   @ \o [i \in 1..ex.runs |-> _execution_observation(exec_result)]]

\* what _node_execute returns once execute has returned (code, exec_result)
ExecuteCommit(st, code, exec_result) ==
    [st EXCEPT !.code = code,
               !.last_execution = exec_result,
               !.execution_results = Append(@, _execution_observation(exec_result))]

\* _node_execute calls SolutionExecutionService.execute, up to its loop
ExecuteEnter ==
    /\ node = "execute"
    /\ ex.pc = "idle"
    /\ ex' = [pc |-> "loop", attempt |-> 0, current_script |-> state.code,
              last_result |-> ExecutionResult(FALSE, <<>>, None, None),
              runs |-> 0, fixes |-> 0, ran |-> NoCode]
    /\ hist' = [hist EXCEPT !.executes = @ + 1]
    /\ UNCHANGED <<other, call, config, node, state, an>>

execute_attempt_no_early_return(cfg, f, result) ==
    IF result.success \/ ~_can_debug_solution(cfg, f.attempt)
    THEN [f EXCEPT !.runs = @ + 1, !.ran = f.current_script, !.last_result = result, !.attempt = @ + 1]
    ELSE [f EXCEPT !.runs = @ + 1, !.ran = f.current_script, !.last_result = result,
                   !.fixes = @ + 1, !.attempt = @ + 1,
                   !.current_script = Generated("debugger_solution", f.fixes + 1)]

\* the body of the loop of execute for one attempt, given what the Sandbox
\* returned: the frame of execute after it
execute_attempt(cfg, f, result) ==
    IF result.success
    THEN [f EXCEPT !.pc = "return", !.runs = @ + 1, !.ran = f.current_script, !.last_result = result]
    ELSE IF ~_can_debug_solution(cfg, f.attempt)
    THEN [f EXCEPT !.runs = @ + 1, !.ran = f.current_script, !.last_result = result, !.attempt = @ + 1]
    ELSE [f EXCEPT !.runs = @ + 1, !.ran = f.current_script, !.last_result = result,
                   !.fixes = @ + 1, !.attempt = @ + 1,
                   !.current_script = Generated("debugger_solution", f.fixes + 1)]

\* one iteration of the loop of execute
ExecuteAttempt ==
    /\ node = "execute"
    /\ ex.pc = "loop"
    /\ ex.attempt < config.max_debug_attempts
    /\ \E result \in RunOutcomes : ex' = execute_attempt(config, ex, result)
    /\ UNCHANGED <<other, call, config, node, state, an, hist>>

\* execute returns (current_script, last_result), from inside the loop after
\* a successful run or after the loop; _node_execute commits its updates.
\* hist.ran_code is the script of the Sandbox run that produced
\* last_execution, until the session's code is generated anew
ExecuteReturn ==
    /\ node = "execute"
    /\ \/ ex.pc = "return"
       \/ ex.pc = "loop" /\ ex.attempt >= config.max_debug_attempts
    /\ state' = ExecuteCommit(state, ex.current_script, ex.last_result)
    /\ hist' = [hist EXCEPT !.ran_code = ex.ran]
    /\ ex' = IdleFrame
    /\ node' = "verify"
    /\ UNCHANGED <<other, call, config, an>>

_node_verify_counts_every_verdict(cfg, st, verifier_text) ==
    Only({ LET iteration == st.iteration + 1
               reason == IF outcome.result = SUFFICIENT THEN "verified"
                         ELSE IF iteration >= cfg.max_refinement_rounds
                         THEN "max_rounds"
                         ELSE st.finalization_reason
           IN  [st EXCEPT !.verification = outcome.result,
                          !.verifier_response = outcome.response,
                          !.iteration = iteration,
                          !.finalization_reason = reason]
           : outcome \in {evaluate(Strip(verifier_text))} })

_node_verify_cap_first(cfg, st, verifier_text) ==
    Only({ LET iteration == IF outcome.result = INSUFFICIENT THEN st.iteration + 1
                            ELSE st.iteration
               reason == IF iteration >= cfg.max_refinement_rounds THEN "max_rounds"
                         ELSE IF outcome.result = SUFFICIENT THEN "verified"
                         ELSE st.finalization_reason
           IN  [st EXCEPT !.verification = outcome.result,
                          !.verifier_response = outcome.response,
                          !.iteration = iteration,
                          !.finalization_reason = reason]
           : outcome \in {evaluate(Strip(verifier_text))} })

\* DSSTAR._node_verify, given what the verification capability returned
_node_verify(cfg, st, verifier_text) ==
    Only({ LET iteration == IF outcome.result = INSUFFICIENT THEN st.iteration + 1
                            ELSE st.iteration
               reason == IF outcome.result = SUFFICIENT THEN "verified"
                         ELSE IF iteration >= cfg.max_refinement_rounds
                         THEN "max_rounds"
                         ELSE st.finalization_reason
           IN  [st EXCEPT !.verification = outcome.result,
                          !.verifier_response = outcome.response,
                          !.iteration = iteration,
                          !.finalization_reason = reason]
           : outcome \in {evaluate(Strip(verifier_text))} })

_route_after_verify_off_by_one(cfg, st) ==
    IF st.verification = SUFFICIENT THEN "verified"
    ELSE IF st.iteration > cfg.max_refinement_rounds THEN "maxed"
    ELSE "continue"

\* DSSTAR._route_after_verify
_route_after_verify(cfg, st) ==
    IF st.verification = SUFFICIENT THEN "verified"
    ELSE IF st.iteration >= cfg.max_refinement_rounds THEN "maxed"
    ELSE "continue"

VerifyEdge_skips_finalize(label) ==
    CASE label = "verified" -> "END"
      [] label = "maxed" -> "finalize"
      [] label = "continue" -> "router"

\* _build_graph: the conditional edges out of "verify"
VerifyEdge(label) ==
    CASE label = "verified" -> "finalize"
      [] label = "maxed" -> "finalize"
      [] label = "continue" -> "router"

\* the "verify" node and the conditional edge taken after it
Verify ==
    /\ node = "verify"
    /\ Configured(config, "verifier")
    /\ \E verifier_text \in VerifierTexts :
         \E updated \in {_node_verify(config, state, verifier_text)} :
             /\ state' = updated
             /\ node' = VerifyEdge(_route_after_verify(config, updated))
             /\ hist' = [hist EXCEPT
                           !.verifies = @ + 1,
                           !.insufficient =
                               IF updated.verification = INSUFFICIENT
                               THEN @ + 1 ELSE @]
    /\ UNCHANGED <<other, call, config, an, ex>>

\* DSSTAR._node_router with RouterService.decide and RouterAgent.decide
Router ==
    /\ node = "router"
    /\ Configured(config, "router")
    /\ \E router_text \in RouterTexts :
         state' = [state EXCEPT
                     !.router_decision = _normalize_text(Strip(router_text))]
    /\ node' = "planner_next"
    /\ hist' = [hist EXCEPT !.routes = @ + 1]
    /\ UNCHANGED <<other, call, config, an, ex>>

_node_planner_next_no_append(st) ==
    [st EXCEPT !.plan = truncate_plan(st.plan, st.router_decision)]

_node_planner_next_append_first(st) ==
    LET next_step == Generated("planner_next", st.iteration)
    IN  [st EXCEPT !.plan = truncate_plan(Append(st.plan, next_step),
                                          st.router_decision)]

\* _node_planner_next: the arguments it passes to generate_next_step
generate_next_step_args(st) ==
    [plan |-> truncate_plan(st.plan, st.router_decision),
     query |-> st.query,
     last_result |-> _execution_observation(st.last_execution)]

\* DSSTAR._node_planner_next
_node_planner_next(st) ==
    LET plan == generate_next_step_args(st).plan
        next_step == Generated("planner_next", st.iteration)
    IN  [st EXCEPT !.plan = Append(plan, next_step)]

\* the "planner_next" node; hist.planner_given is the plan the generator saw
PlannerNext ==
    /\ node = "planner_next"
    /\ Configured(config, "planner_next")
    /\ state' = _node_planner_next(state)
    /\ node' = "coder_next"
    /\ hist' = [hist EXCEPT !.planner_given = generate_next_step_args(state).plan]
    /\ UNCHANGED <<other, call, config, an, ex>>

\* DSSTAR._node_coder_next
CoderNext ==
    /\ node = "coder_next"
    /\ Configured(config, "coder_next")
    /\ state' = [state EXCEPT !.code = Generated("coder_next", state.iteration)]
    /\ hist' = [hist EXCEPT !.ran_code = NoCode]
    /\ node' = "execute"
    /\ UNCHANGED <<other, call, config, an, ex>>

\* what an agent does when it is invoked while its prompt is unconfigured
unconfigured_behaviour_all_raise(key) == "raise"

unconfigured_behaviour(key) ==
    IF key = "finalyzer" THEN "return_code" ELSE "raise"

\* FinalizationService.finalize with FinalyzerAgent.finalize
finalize(cfg, code) ==
    IF ~Configured(cfg, "finalyzer") THEN code ELSE Generated("finalyzer", 0)

_node_finalize_always_verified(cfg, st) ==
    [st EXCEPT !.final_code = finalize(cfg, st.code),
               !.final_plan = st.plan,
               !.final_execution_results = st.execution_results,
               !.finalization_reason = "verified"]

\* DSSTAR._node_finalize: the updates it returns, merged into the state
_node_finalize(cfg, st) ==
    [st EXCEPT !.final_code = finalize(cfg, st.code),
               !.final_plan = st.plan,
               !.final_execution_results = st.execution_results,
               !.finalization_reason = IF @ = Absent THEN "verified" ELSE @]

\* the "finalize" node and the edge to END
Finalize ==
    /\ node = "finalize"
    /\ \/ Configured(config, "finalyzer")
       \/ unconfigured_behaviour("finalyzer") = "return_code"
    /\ state' = _node_finalize(config, state)
    /\ node' = "END"
    /\ hist' = [hist EXCEPT !.finalizes = @ + 1]
    /\ UNCHANGED <<other, call, config, an, ex>>

\* DSSTAR.solve: the triple returned from the final state of the graph
solve_result(st) ==
    [final_code |-> IF st.final_code # NoCode THEN st.final_code ELSE st.code,
     final_plan |-> IF st.final_plan # <<>> THEN st.final_plan ELSE st.plan,
     final_execution_results |->
         IF st.final_execution_results # <<>>
         THEN st.final_execution_results ELSE st.execution_results]

Next ==
    \/ AnalyzeStartFile
    \/ AnalyzeAttempt
    \/ AnalyzeFileReturn
    \/ AnalyzeReturn
    \/ PlannerInitial
    \/ CoderInitial
    \/ ExecuteEnter
    \/ ExecuteAttempt
    \/ ExecuteReturn
    \/ Verify
    \/ Router
    \/ PlannerNext
    \/ CoderNext
    \/ Finalize

Spec == Init /\ [][Next]_vars

\* graph.invoke runs the nodes one after another until END
FairSpec == Spec /\ WF_vars(Next)

\* engines whose max_debug_attempts is -1, 0 or 1
LowBudgetInit ==
    /\ config \in [ max_refinement_rounds : 0..MaxRounds,
                    max_debug_attempts : -1..1,
                    use_retriever : {FALSE},
                    top_k_files : {10},
                    analyzer_debugger_configured : BOOLEAN,
                    solution_debugger_configured : BOOLEAN,
                    unconfigured : {"none"} ]
    /\ node = "analyze"
    /\ \E files \in DataFileLists : state = InitialState(files)
    /\ an = [pc |-> "next", idx |-> 0, attempt |-> 0, current_script |-> NoCode,
             description |-> <<>>, descriptions |-> <<>>, result |-> NoExecution,
             runs |-> 0, fixes |-> 0, ran |-> NoCode]
    /\ ex = IdleFrame
    /\ hist = NoHistory
    /\ call = NoCall
    /\ other = NoSession

LowBudgetSpec == LowBudgetInit /\ [][Next]_vars

\* ------------------------------------------------------------------------
\* Errors: unconfigured prompts and a generation capability that raises
\* ------------------------------------------------------------------------
\* the prompts of the agents the graph nodes invoke
PhasePrompts == {"analyzer", "planner_initial", "coder_initial", "verifier",
                 "router", "planner_next", "coder_next", "finalyzer"}

\* the agent of prompt `key` is about to be invoked
Invoked(key) ==
    CASE key = "analyzer" ->
           node = "analyze" /\ an.pc = "next" /\ an.idx < Len(state.data_files)
      [] key = "verifier" -> node = "verify"
      [] key = "finalyzer" -> node = "finalize"
      [] OTHER -> node = key

on_raise_verify_caught(at) == IF at = "verify" THEN "finalize" ELSE "ABORTED"

\* where control goes when a node raises: no node and no service catches, so
\* graph.invoke and solve end with the exception
on_raise(at) == "ABORTED"

\* an agent invoked while its prompt is unconfigured raises ValueError
ConfigurationError ==
    /\ \E key \in PhasePrompts :
         /\ Invoked(key)
         /\ ~Configured(config, key)
         /\ unconfigured_behaviour(key) = "raise"
    /\ node' = on_raise(node)
    /\ hist' = [hist EXCEPT !.error = "configuration", !.error_at = node]
    /\ UNCHANGED <<other, call, config, state, an, ex>>

\* llm_client.generate raises inside the agent of a node; the agent re-raises
GenerationRaises ==
    /\ \E key \in PhasePrompts : Invoked(key) /\ Configured(config, key)
    /\ node' = on_raise(node)
    /\ hist' = [hist EXCEPT !.error = "generation", !.error_at = node]
    /\ UNCHANGED <<other, call, config, state, an, ex>>

\* a run has failed inside a Debug-Retry loop and the fixer's generation raises
DebuggerRaises ==
    /\ \/ /\ node = "analyze"
          /\ an.pc = "loop"
          /\ an.attempt < config.max_debug_attempts
          /\ _can_debug_analyzer(config, an.attempt)
       \/ /\ node = "execute"
          /\ ex.pc = "loop"
          /\ ex.attempt < config.max_debug_attempts
          /\ _can_debug_solution(config, ex.attempt)
    /\ node' = on_raise(node)
    /\ hist' = [hist EXCEPT !.error = "generation", !.error_at = node]
    /\ UNCHANGED <<other, call, config, state, an, ex>>

\* DSSTAR.__init__ with at most one prompt file missing
ErrConfigs ==
    [ max_refinement_rounds : 0..MaxRounds,
      max_debug_attempts : 0..MaxAttempts,
      use_retriever : {FALSE},
      top_k_files : {10},
      analyzer_debugger_configured : {TRUE},
      solution_debugger_configured : {TRUE},
      unconfigured : PhasePrompts \cup {"none"} ]

ErrInit ==
    /\ config \in ErrConfigs
    /\ node = "analyze"
    /\ \E files \in DataFileLists : state = InitialState(files)
    /\ an = [pc |-> "next", idx |-> 0, attempt |-> 0, current_script |-> NoCode,
             description |-> <<>>, descriptions |-> <<>>, result |-> NoExecution,
             runs |-> 0, fixes |-> 0, ran |-> NoCode]
    /\ ex = IdleFrame
    /\ hist = NoHistory
    /\ call = NoCall
    /\ other = NoSession

ErrNext ==
    \/ Next
    \/ ConfigurationError
    \/ GenerationRaises
    \/ DebuggerRaises

ErrSpec == ErrInit /\ [][ErrNext]_vars

\* ------------------------------------------------------------------------
\* Two solve calls on one engine, their phase steps interleaved
\* ------------------------------------------------------------------------
\* the first node of a solve call on `data_files`
StartOfSolve(data_files) ==
    [node |-> "analyze", state |-> InitialState(data_files),
     an |-> [pc |-> "next", idx |-> 0, attempt |-> 0, current_script |-> NoCode,
             description |-> <<>>, descriptions |-> <<>>, result |-> NoExecution,
             runs |-> 0, fixes |-> 0, ran |-> NoCode],
     ex |-> IdleFrame, hist |-> NoHistory]

\* the solve call that is running: its position in the graph, its state
\* dict, and the frames and locals of the service calls it is inside
Running == [node |-> node, state |-> state, an |-> an, ex |-> ex, hist |-> hist]

\* the engine both calls go through
ConcConfig ==
    [max_refinement_rounds |-> 2, max_debug_attempts |-> 1,
     use_retriever |-> FALSE, top_k_files |-> 10,
     analyzer_debugger_configured |-> TRUE,
     solution_debugger_configured |-> TRUE,
     unconfigured |-> "none"]

\* solve(query, []) starts to run; solve(query, ["a.csv"]) has been called
\* from another thread
ConcInit ==
    /\ config = ConcConfig
    /\ node = StartOfSolve(<<>>).node
    /\ state = StartOfSolve(<<>>).state
    /\ an = StartOfSolve(<<>>).an
    /\ ex = StartOfSolve(<<>>).ex
    /\ hist = StartOfSolve(<<>>).hist
    /\ other = [id |-> 2, session |-> StartOfSolve(<<"a.csv">>)]
    /\ call = NoCall

\* the scheduler suspends the running call and resumes the other one
Switch ==
    /\ other # NoSession
    /\ node' = other.session.node
    /\ state' = other.session.state
    /\ an' = other.session.an
    /\ ex' = other.session.ex
    /\ hist' = other.session.hist
    /\ other' = [id |-> 3 - other.id, session |-> Running]
    /\ UNCHANGED <<config, call>>

ConcNext ==
    \/ Next
    \/ Switch

ConcSpec == ConcInit /\ [][ConcNext]_vars

\* ------------------------------------------------------------------------
\* Direct calls of the pure service functions
\* ------------------------------------------------------------------------
\* plans given to truncate_plan have at most MaxPlanLen steps
MaxPlanLen == 3

PlanSteps == {"a", "b"}

Plans == UNION { [1..n -> PlanSteps] : n \in 0..MaxPlanLen }

\* decision texts given to truncate_plan
Decisions ==
    { <<>>,
      <<"A", "d", "d", " ", "S", "t", "e", "p">>,
      <<" ", "a", "d", "d", " ", "S", "T", "E", "P", "\n">>,
      <<"a", "d", "d", "s", "t", "e", "p">>,
      <<"0">>, <<"-", "1">>, <<"-", "0">>, <<"1">>, <<"2">>, <<"3">>, <<"5">>,
      <<"+", "2">>, <<" ", "2", " ">>, <<"1", "_", "0">>, <<"0", "2">>,
      <<"t", "w", "o">>, <<"2", ".", "5">>, <<"-">>, <<"2", " ", "3">>,
      <<"1", "_">>, <<" ">> }

\* texts returned by the verifier to VerificationService.evaluate
Responses ==
    { <<>>,
      <<"S", "u", "f", "f", "i", "c", "i", "e", "n", "t", ".">>,
      <<"T", "h", "e", " ", "p", "l", "a", "n", " ", "i", "s", " ",
        "I", "N", "S", "U", "F", "F", "I", "C", "I", "E", "N", "T", " ",
        "b", "e", "c", "a", "u", "s", "e", ".", ".", ".">>,
      <<"u", "n", "c", "l", "e", "a", "r">>,
      <<"n", "o", "t", " ", "s", "u", "f", "f", "i", "c", "i", "e", "n", "t">>,
      <<"I", "n", "s", "u", "f", "f", "i", "c", "i", "e", "n", "t", ",", " ",
        "n", "o", "t", " ", "s", "u", "f", "f", "i", "c", "i", "e", "n", "t">>,
      <<"s", "u", "f", "f", "i", "c", " ", "i", "e", "n", "t">>,
      <<" ", "S", "U", "F", "F", "I", "C", "I", "E", "N", "T", "\n">>,
      <<"i", "n", "s", "u", "f", "f", "i", "c", "i", "e", "n">>,
      <<" ">> }

\* PlanningService.truncate_plan(plan, decision), called directly
CallTruncatePlan ==
    /\ call = NoCall
    /\ \E plan \in Plans, decision \in Decisions :
         call' = [fn |-> "truncate_plan", plan |-> plan, decision |-> decision,
                  result |-> truncate_plan(plan, decision)]
    /\ UNCHANGED <<other, config, node, state, an, ex, hist>>

\* VerificationService.evaluate, the verifier returning `text`
CallEvaluate ==
    /\ call = NoCall
    /\ \E text \in Responses :
         call' = [fn |-> "evaluate", text |-> text, result |-> evaluate(text)]
    /\ UNCHANGED <<other, config, node, state, an, ex, hist>>

\* select_relevant is given at most MaxFiles descriptions, and top_k_files
\* is at most MaxFiles
MaxFiles == 3

Queries == {"q1", "q2"}

\* lists of descriptions of the files a.csv and b.csv
DescriptionLists ==
    UNION { [1..n -> { DataDescription(f, <<"4", "2">>, Generated("analyzer", 1)) :
                          f \in {"a.csv", "b.csv"} }] : n \in 0..MaxFiles }

\* AnalyzerService.select_relevant(query, descriptions), called directly on a
\* service built with use_retriever and top_k_files
CallSelectRelevant ==
    /\ call = NoCall
    /\ \E use_retriever \in BOOLEAN, top_k_files \in 0..MaxFiles,
          query \in Queries, descriptions \in DescriptionLists :
         \E cfg \in {[config EXCEPT !.use_retriever = use_retriever,
                                    !.top_k_files = top_k_files]} :
             call' = [fn |-> "select_relevant", cfg |-> cfg, query |-> query,
                      descriptions |-> descriptions,
                      result |-> select_relevant(cfg, query, descriptions)]
    /\ UNCHANGED <<other, config, node, state, an, ex, hist>>

\* how the traceback summarizer of a service behaves: the service has none,
\* its prompt is empty, its generation raises, or it answers with a text
SummarizerModes == {"absent", "unconfigured", "raises", "responds"}

SummarizerResponses == { <<>>, <<" ", "s", "u", "m", "\n">> }

\* failed results given to _summarize_traceback
FailedResults ==
    { ExecutionResult(FALSE, PartialOut, error, traceback) :
        error \in {None, <<>>, ErrText},
        traceback \in {None, <<>>, <<" ", "\n">>, <<" ", "t", "b", "\n">>} }

\* TracebackSummarizerAgent.summarize: whether it raised, and what it returned
summarize(mode, response, error_traceback) ==
    IF mode = "unconfigured" THEN [raised |-> FALSE, value |-> error_traceback]
    ELSE IF mode = "raises" THEN [raised |-> FALSE, value |-> error_traceback]
    ELSE [raised |-> FALSE,
          value |-> IF Truthy(response) THEN Strip(response) ELSE error_traceback]

_summarize_traceback_error_first(mode, response, result) ==
    LET raw == Or(Or(result.error, result.traceback), <<>>)
    IN  [raised |-> FALSE, summary |-> _normalize_text(raw)]

\* _summarize_traceback of both services: whether it raised, and the summary
_summarize_traceback(mode, response, result) ==
    LET raw == Or(Or(result.traceback, result.error), <<>>)
    IN  IF mode \in {"absent", "unconfigured"}
        THEN [raised |-> FALSE, summary |-> _normalize_text(raw)]
        ELSE IF summarize(mode, response, raw).raised
        THEN [raised |-> FALSE, summary |-> _normalize_text(raw)]
        ELSE [raised |-> FALSE,
              summary |-> _normalize_text(summarize(mode, response, raw).value)]

\* _summarize_traceback(result), called directly
CallSummarizeTraceback ==
    /\ call = NoCall
    /\ \E mode \in SummarizerModes, response \in SummarizerResponses,
          result \in FailedResults :
         call' = [fn |-> "_summarize_traceback", mode |-> mode,
                  response |-> response, result |-> result,
                  returned |-> _summarize_traceback(mode, response, result)]
    /\ UNCHANGED <<other, config, node, state, an, ex, hist>>

\* values of state.get("last_execution") given to _execution_observation
Executions ==
    {NoExecution} \cup
    { ExecutionResult(success, output, error, None) :
        success \in BOOLEAN,
        output \in {None, <<>>, <<" ", "\n">>, OkOut},
        error \in {None, <<>>, <<" ">>, ErrText} }

\* _execution_observation(execution), called directly
CallExecutionObservation ==
    /\ call = NoCall
    /\ \E execution \in Executions :
         call' = [fn |-> "_execution_observation", execution |-> execution,
                  returned |-> _execution_observation(execution)]
    /\ UNCHANGED <<other, config, node, state, an, ex, hist>>

\* the caller takes the result
CallReturn ==
    /\ call # NoCall
    /\ call' = NoCall
    /\ UNCHANGED <<other, config, node, state, an, ex, hist>>

\* ------------------------------------------------------------------------
\* PythonScriptRunner.run
\* ------------------------------------------------------------------------
TimeoutError == <<"E", "x", "e", "c", "u", "t", "i", "o", "n", " ",
                  "t", "i", "m", "e", "o", "u", "t">>
TimeoutTraceback ==
    <<"S", "c", "r", "i", "p", "t", " ", "e", "x", "e", "c", "u", "t", "i", "o", "n", " ", "e", "x", "c",
      "e", "e", "d", "e", "d", " ", "t", "i", "m", "e", "o", "u", "t", " ", "l", "i", "m", "i", "t">>

\* str(exc) of the exception raised by a step on the host
ExceptionText(step) ==
    CASE step = "create" -> <<"c", "a", "n", "n", "o", "t", " ", "c", "r", "e", "a", "t", "e">>
      [] step = "write" -> <<"c", "a", "n", "n", "o", "t", " ", "e", "n", "c", "o", "d", "e">>
      [] step = "launch" -> <<"c", "a", "n", "n", "o", "t", " ", "l", "a", "u", "n", "c", "h">>
      [] step = "unlink" -> <<"N", "o", " ", "s", "u", "c", "h", " ", "f", "i", "l", "e">>

\* traceback.format_exc() inside the handler
FormatExc(step) == <<"T", "r", "a", "c", "e", "b", "a", "c", "k", ":", " ">>
                       \o ExceptionText(step)

\* what the host and the child process do during one call of run:
\*   create  NamedTemporaryFile(mode="w", suffix=".py", delete=False)
\*   write   handle.write(code) and the close of the handle
\*   child   subprocess.run: exit code 0, another exit code, TimeoutExpired,
\*           or an OSError when the interpreter cannot be launched
\*   unlink  os.unlink(temp_file): done, or an OSError because the script
\*           has removed its own file, or because the host refuses
RunEnvs ==
    [ create : {"ok", "oserror"},
      write : {"ok", "error"},
      child : {"exit0", "nonzero", "timeout", "oserror"},
      stdout : { <<>>, OkOut },
      stderr : { <<>>, ErrText },
      unlink : {"ok", "missing", "denied"} ]

\* the handler `except subprocess.TimeoutExpired`
TimeoutResult == ExecutionResult(FALSE, <<>>, TimeoutError, TimeoutTraceback)

\* the handler `except Exception as exc`
ExceptionResult(step) ==
    ExecutionResult(FALSE, <<>>, ExceptionText(step), FormatExc(step))

\* the inner try block: what is on its way out of it when `finally` is
\* entered, a return value or an exception in flight
RunChild(env) ==
    CASE env.child = "exit0" ->
           [kind |-> "return",
            result |-> ExecutionResult(TRUE, env.stdout, None, None)]
      [] env.child = "nonzero" ->
           [kind |-> "return",
            result |-> ExecutionResult(FALSE, env.stdout, env.stderr, env.stderr)]
      [] env.child = "timeout" -> [kind |-> "TimeoutExpired"]
      [] env.child = "oserror" -> [kind |-> "Exception", step |-> "launch"]

\* `finally: os.unlink(temp_file)`: an exception raised by os.unlink takes the
\* place of the return value or of the exception in flight
RunFinally(env, pending) ==
    IF env.unlink = "ok" THEN pending
    ELSE [kind |-> "Exception", step |-> "unlink"]

\* the handlers of the outer try
RunHandlers(pending) ==
    CASE pending.kind = "return" -> pending.result
      [] pending.kind = "TimeoutExpired" -> TimeoutResult
      [] pending.kind = "Exception" -> ExceptionResult(pending.step)

\* PythonScriptRunner.run under `env`: whether the call raised, the
\* ExecutionResult it returned, whether it created its temporary file and
\* whether that file still exists when the call returns
run(env) ==
    IF env.create # "ok"
    THEN [raised |-> FALSE, result |-> ExceptionResult("create"),
          temp_file_created |-> FALSE, temp_file_exists |-> FALSE]
    ELSE IF env.write # "ok"
    THEN [raised |-> FALSE, result |-> ExceptionResult("write"),
          temp_file_created |-> TRUE, temp_file_exists |-> TRUE]
    ELSE [raised |-> FALSE,
          result |-> RunHandlers(RunFinally(env, RunChild(env))),
          temp_file_created |-> TRUE,
          temp_file_exists |-> (env.unlink = "denied")]

\* PythonScriptRunner.run(code), called directly
CallRun ==
    /\ call = NoCall
    /\ \E env \in RunEnvs :
         call' = [fn |-> "run", env |-> env, returned |-> run(env)]
    /\ UNCHANGED <<other, config, node, state, an, ex, hist>>

PureInit ==
    /\ config = [max_refinement_rounds |-> 10, max_debug_attempts |-> 3,
                 use_retriever |-> FALSE, top_k_files |-> 10,
                 analyzer_debugger_configured |-> TRUE,
                 solution_debugger_configured |-> TRUE,
                 unconfigured |-> "none"]
    /\ node = "analyze"
    /\ state = InitialState(<<>>)
    /\ an = AnalyzeIdle
    /\ ex = IdleFrame
    /\ hist = NoHistory
    /\ call = NoCall
    /\ other = NoSession

PureNext ==
    \/ CallTruncatePlan
    \/ CallEvaluate
    \/ CallRun
    \/ CallSelectRelevant
    \/ CallSummarizeTraceback
    \/ CallExecutionObservation
    \/ CallReturn

PureSpec == PureInit /\ [][PureNext]_vars

\* ------------------------------------------------------------------------
\* The generation clients (llm_clients.py): one generate call at a time on a
\* client object; `call` holds the client and the frame of generate
\* ------------------------------------------------------------------------
MaxTokens == 3

MaxCalls == 2

DEFAULT_GEMINI_MAX_OUTPUT_TOKENS == 8192

Min2(a, b) == IF a <= b THEN a ELSE b

Max2(a, b) == IF a >= b THEN a ELSE b

\* GeminiClient.__init__; a max_output_limit of 0 stands for None too
GeminiClient(max_tokens, max_output_limit) ==
    LET limit == IF max_output_limit = 0 THEN DEFAULT_GEMINI_MAX_OUTPUT_TOKENS
                 ELSE max_output_limit
    IN  [kind |-> "gemini", max_tokens |-> max_tokens,
         max_output_limit |-> IF limit < max_tokens THEN max_tokens ELSE limit]

\* OpenRouterClient.__init__
OpenRouterClient(max_tokens) ==
    [kind |-> "openrouter", max_tokens |-> max_tokens, max_output_limit |-> 0]

Clients ==
    { GeminiClient(max_tokens, max_output_limit) :
        max_tokens \in 0..MaxTokens, max_output_limit \in 0..(MaxTokens + 1) }
    \cup { OpenRouterClient(max_tokens) : max_tokens \in {1} }

\* what client.generate_content does: it raises, or it returns a response
\* whose candidates have text or not and a MAX_TOKENS finish reason or not
GeminiResponses ==
    { [raises |-> TRUE, text |-> FALSE, max_tokens_reason |-> FALSE] }
    \cup { [raises |-> FALSE, text |-> text, max_tokens_reason |-> reason] :
             text \in BOOLEAN, reason \in BOOLEAN }

\* what the HTTP request of OpenRouterClient.generate does
OpenRouterResponses ==
    { "transport_error", "http_error", "malformed_body",
      "content_text", "content_empty", "content_none" }

\* a client on which no generate call has been made
ClientIdle(client) ==
    [fn |-> "generate", client |-> client, pc |-> "idle", calls |-> 0,
     attempted_max_retry |-> FALSE, current_max_tokens |-> 0,
     initial_max_tokens |-> 0, invocations |-> 0, limits |-> <<>>,
     last_response |-> "none", outcome |-> "none"]

\* generate up to its first invocation
generate_enter(f) ==
    Only({ [f EXCEPT !.pc = "invoke", !.calls = @ + 1,
                     !.attempted_max_retry = FALSE,
                     !.current_max_tokens = current,
                     !.initial_max_tokens = current,
                     !.invocations = 0, !.limits = <<>>,
                     !.last_response = "none", !.outcome = "none"]
           : current \in {IF f.client.kind = "gemini"
                          THEN Min2(Max2(1, f.client.max_tokens),
                                    f.client.max_output_limit)
                          ELSE f.client.max_tokens} })

gemini_iteration_retries_failure(f, response) ==
    Only({ IF response.raises /\ ~f.attempted_max_retry
           THEN [g EXCEPT !.attempted_max_retry = TRUE]
           ELSE IF response.raises \/ ~response.text
           THEN [g EXCEPT !.pc = "raised", !.outcome = "RuntimeError"]
           ELSE [g EXCEPT !.pc = "returned", !.outcome = "text"]
           : g \in {[f EXCEPT !.invocations = @ + 1,
                              !.limits = Append(@, f.current_max_tokens),
                              !.last_response = response]} })

gemini_iteration_unbounded_retry(f, response) ==
    Only({ IF response.raises
           THEN [g EXCEPT !.pc = "raised", !.outcome = "RuntimeError"]
           ELSE IF response.text
           THEN [g EXCEPT !.pc = "returned", !.outcome = "text",
                          !.client.max_tokens =
                              IF f.attempted_max_retry
                                 /\ f.current_max_tokens > f.client.max_tokens
                              THEN f.current_max_tokens ELSE @]
           ELSE IF response.max_tokens_reason
                   /\ f.current_max_tokens < f.client.max_output_limit
           THEN [g EXCEPT !.attempted_max_retry = TRUE,
                          !.current_max_tokens =
                              Min2(f.client.max_output_limit,
                                   f.current_max_tokens * 2)]
           ELSE [g EXCEPT !.pc = "raised", !.outcome = "RuntimeError"]
           : g \in {[f EXCEPT !.invocations = @ + 1,
                              !.limits = Append(@, f.current_max_tokens),
                              !.last_response = response]} })

\* one iteration of the `while True` of GeminiClient.generate, given what
\* generate_content did
gemini_iteration(f, response) ==
    Only({ IF response.raises
           THEN [g EXCEPT !.pc = "raised", !.outcome = "RuntimeError"]
           ELSE IF response.text
           THEN [g EXCEPT !.pc = "returned", !.outcome = "text",
                          !.client.max_tokens =
                              IF f.attempted_max_retry
                                 /\ f.current_max_tokens > f.client.max_tokens
                              THEN f.current_max_tokens ELSE @]
           ELSE IF response.max_tokens_reason
                   /\ ~f.attempted_max_retry
                   /\ f.current_max_tokens < f.client.max_output_limit
           THEN [g EXCEPT !.attempted_max_retry = TRUE,
                          !.current_max_tokens =
                              Min2(f.client.max_output_limit,
                                   f.current_max_tokens * 2)]
           ELSE [g EXCEPT !.pc = "raised", !.outcome = "RuntimeError"]
           : g \in {[f EXCEPT !.invocations = @ + 1,
                              !.limits = Append(@, f.current_max_tokens),
                              !.last_response = response]} })

\* OpenRouterClient.generate from its request to its return
openrouter_request(f, response) ==
    Only({ CASE response = "transport_error" ->
                    [g EXCEPT !.pc = "raised", !.outcome = "RequestException"]
             [] response = "http_error" ->
                    [g EXCEPT !.pc = "raised", !.outcome = "HTTPError"]
             [] response = "malformed_body" ->
                    [g EXCEPT !.pc = "raised", !.outcome = "KeyError"]
             [] response = "content_text" ->
                    [g EXCEPT !.pc = "returned", !.outcome = "text"]
             [] response = "content_empty" ->
                    [g EXCEPT !.pc = "returned", !.outcome = "empty"]
             [] response = "content_none" ->
                    [g EXCEPT !.pc = "returned", !.outcome = "None"]
           : g \in {[f EXCEPT !.invocations = @ + 1,
                              !.limits = Append(@, f.current_max_tokens),
                              !.last_response = response]} })

\* a caller calls client.generate(prompt)
GenerateEnter ==
    /\ call.pc \in {"idle", "returned", "raised"}
    /\ call.calls < MaxCalls
    /\ call' = generate_enter(call)
    /\ UNCHANGED <<other, config, node, state, an, ex, hist>>

\* GeminiClient.generate: one trip round its loop
GeminiInvoke ==
    /\ call.pc = "invoke"
    /\ call.client.kind = "gemini"
    /\ \E response \in GeminiResponses : call' = gemini_iteration(call, response)
    /\ UNCHANGED <<other, config, node, state, an, ex, hist>>

\* OpenRouterClient.generate: its one request
OpenRouterInvoke ==
    /\ call.pc = "invoke"
    /\ call.client.kind = "openrouter"
    /\ \E response \in OpenRouterResponses :
         call' = openrouter_request(call, response)
    /\ UNCHANGED <<other, config, node, state, an, ex, hist>>

ClientInit ==
    /\ config = [max_refinement_rounds |-> 10, max_debug_attempts |-> 3,
                 use_retriever |-> FALSE, top_k_files |-> 10,
                 analyzer_debugger_configured |-> TRUE,
                 solution_debugger_configured |-> TRUE,
                 unconfigured |-> "none"]
    /\ node = "analyze"
    /\ state = InitialState(<<>>)
    /\ an = AnalyzeIdle
    /\ ex = IdleFrame
    /\ hist = NoHistory
    /\ call \in { ClientIdle(client) : client \in Clients }
    /\ other = NoSession

ClientNext ==
    \/ GenerateEnter
    \/ GeminiInvoke
    \/ OpenRouterInvoke

ClientSpec == ClientInit /\ [][ClientNext]_vars

\* an invocation of the model that was started returns or raises
ClientFairSpec == ClientSpec /\ WF_vars(ClientNext)

\* ------------------------------------------------------------------------
\* Prompt updates by name: `call` holds the engine's prompt table, the prompt
\* of every agent slot, and the last set_prompt call with its outcome
\* ------------------------------------------------------------------------
PROMPT_KEYS ==
    { "analyzer", "planner_initial", "planner_next", "coder_initial",
      "coder_next", "verifier", "router", "debugger_summarize",
      "debugger_analyzer", "debugger_solution", "finalyzer" }

\* stems of the .txt files a prompts directory may hold
PromptFileStems == { "analyzer", "router", "extra", "notes" }

\* the agent names set_prompt is called with
AgentNames == { "analyzer", "router", "finalyzer", "extra", "notes", "nobody" }

\* load_prompts: every key of PROMPT_KEYS, empty unless its file exists, and
\* one more key for every other .txt file
load_prompts(stems) ==
    [key \in PROMPT_KEYS \cup stems |-> IF key \in stems THEN "loaded" ELSE ""]

\* AgentBundle.create: the prompt each agent slot is given
AgentPrompts(prompts) == [slot \in PROMPT_KEYS |-> prompts[slot]]

\* AgentBundle.update_prompt
update_prompt(agents, agent_name, prompt) ==
    IF agent_name \in { "analyzer", "planner_initial", "planner_next",
                        "coder_initial", "coder_next", "verifier", "router",
                        "debugger_analyzer", "debugger_solution",
                        "debugger_summarize", "finalyzer" }
    THEN [raised |-> FALSE, agents |-> [agents EXCEPT ![agent_name] = prompt]]
    ELSE [raised |-> TRUE, agents |-> agents]

\* DSSTAR.set_prompt on the engine eng
set_prompt(eng, agent_name, prompt) ==
    IF agent_name \notin DOMAIN eng.prompts
    THEN [eng EXCEPT !.agent_name = agent_name, !.outcome = "ValueError"]
    ELSE Only({ [eng EXCEPT !.agent_name = agent_name,
                            !.prompts[agent_name] = prompt,
                            !.agents = updated.agents,
                            !.outcome = IF updated.raised THEN "ValueError"
                                        ELSE "None"]
                : updated \in {update_prompt(eng.agents, agent_name, prompt)} })

\* a caller calls engine.set_prompt(agent_name, prompt)
SetPrompt ==
    /\ \E agent_name \in AgentNames, prompt \in {"", "new", "newer"} :
         call' = set_prompt(call, agent_name, prompt)
    /\ UNCHANGED <<other, config, node, state, an, ex, hist>>

\* the engine after DSSTAR.__init__ over some prompts directory
PromptInit ==
    /\ config = [max_refinement_rounds |-> 10, max_debug_attempts |-> 3,
                 use_retriever |-> FALSE, top_k_files |-> 10,
                 analyzer_debugger_configured |-> TRUE,
                 solution_debugger_configured |-> TRUE,
                 unconfigured |-> "none"]
    /\ node = "analyze"
    /\ state = InitialState(<<>>)
    /\ an = AnalyzeIdle
    /\ ex = IdleFrame
    /\ hist = NoHistory
    /\ \E stems \in SUBSET PromptFileStems :
         call = [fn |-> "set_prompt", prompts |-> load_prompts(stems),
                 agents |-> AgentPrompts(load_prompts(stems)),
                 agent_name |-> "none", outcome |-> "none"]
    /\ other = NoSession

PromptSpec == PromptInit /\ [][SetPrompt]_vars

\* ------------------------------------------------------------------------
\* ActivityTracker (logging_config.py): threads that construct the tracker
\* and call its methods. `call` holds the class attributes _instance and
\* _lock, the attributes of the instance, and each thread's position.
\* max_activities is the attribute __init__ sets to 1000, scaled down here;
\* logged, inits and allocations are history
\* ------------------------------------------------------------------------
max_activities == 2

MaxOps == 3

TrackerThreads == {1, 2}

\* the activities a thread may log: with an agent name, or with a node name
ActivityKinds ==
    { [agent_name |-> "coder", node_name |-> "None"],
      [agent_name |-> "None", node_name |-> "execute"] }

\* the class before any construction: no instance, no attribute of it
TrackerWorld ==
    [fn |-> "ActivityTracker",
     instance |-> FALSE,
     initialized |-> "unset",
     lock |-> 0,
     activities |-> <<>>,
     current_agent |-> "None",
     current_node |-> "None",
     iteration_count |-> 0,
     logged |-> <<>>,
     serial |-> 0,
     inits |-> 0,
     allocations |-> 0,
     threads |-> [t \in TrackerThreads |->
                    [pc |-> "idle", ops |-> 0, has_tracker |-> FALSE,
                     activity |-> "none"]]]

\* ActivityTracker.log_activity, the body under the lock
log_activity(w, activity) ==
    [w EXCEPT !.activities =
                  IF Len(@) + 1 > max_activities
                  THEN SubSeq(Append(@, activity),
                              Len(@) + 1 - max_activities + 1, Len(@) + 1)
                  ELSE Append(@, activity),
              !.logged = Append(@, activity),
              !.current_agent = IF activity.agent_name # "None"
                                THEN activity.agent_name ELSE @,
              !.current_node = IF activity.node_name # "None"
                               THEN activity.node_name ELSE @]

\* ActivityTracker.reset, the body under the lock
reset(w) ==
    [w EXCEPT !.activities = <<>>, !.logged = <<>>,
              !.current_agent = "None", !.current_node = "None",
              !.iteration_count = 0]

\* ActivityTracker.clear, the body under the lock
clear(w) == [w EXCEPT !.activities = <<>>, !.logged = <<>>]

\* a thread calls ActivityTracker() or, on a tracker it has got, a method
TrackerCall ==
    /\ \E t \in TrackerThreads :
         /\ call.threads[t].pc = "idle"
         /\ call.threads[t].ops < MaxOps
         /\ \/ call' = [call EXCEPT !.threads[t].pc = "new_96",
                                    !.threads[t].ops = @ + 1]
            \/ /\ call.threads[t].has_tracker
               /\ \E kind \in ActivityKinds :
                    call' = [call EXCEPT
                               !.threads[t].pc = "log_activity",
                               !.threads[t].ops = @ + 1,
                               !.threads[t].activity =
                                   [id |-> call.serial + 1,
                                    agent_name |-> kind.agent_name,
                                    node_name |-> kind.node_name],
                               !.serial = @ + 1]
            \/ /\ call.threads[t].has_tracker
               /\ \E method \in {"reset", "clear", "increment_iteration"} :
                    call' = [call EXCEPT !.threads[t].pc = method,
                                         !.threads[t].ops = @ + 1]
    /\ UNCHANGED <<other, config, node, state, an, ex, hist>>

\* ActivityTracker.__new__, one statement at a time
TrackerNew ==
    /\ \E t \in TrackerThreads :
         \/ /\ call.threads[t].pc = "new_96"
            /\ call' = [call EXCEPT !.threads[t].pc =
                            IF call.instance THEN "init_104" ELSE "new_97"]
         \/ /\ call.threads[t].pc = "new_97"
            /\ call.lock = 0
            /\ call' = [call EXCEPT !.lock = t, !.threads[t].pc = "new_98"]
         \/ /\ call.threads[t].pc = "new_98"
            /\ call' = IF call.instance
                       THEN [call EXCEPT !.lock = 0, !.threads[t].pc = "init_104"]
                       ELSE [call EXCEPT !.threads[t].pc = "new_99"]
         \/ /\ call.threads[t].pc = "new_99"
            /\ call' = [call EXCEPT !.instance = TRUE,
                                    !.initialized = "unset",
                                    !.allocations = @ + 1,
                                    !.threads[t].pc = "new_100"]
         \/ /\ call.threads[t].pc = "new_100"
            /\ call' = [call EXCEPT !.initialized = "False",
                                    !.lock = 0,
                                    !.threads[t].pc = "init_104"]
    /\ UNCHANGED <<other, config, node, state, an, ex, hist>>

\* ActivityTracker.__init__, which takes no lock
TrackerInitialise ==
    /\ \E t \in TrackerThreads :
         \/ /\ call.threads[t].pc = "init_104"
            /\ call' = CASE call.initialized = "unset" ->
                              [call EXCEPT !.threads[t].pc = "AttributeError"]
                         [] call.initialized = "True" ->
                              [call EXCEPT !.threads[t].pc = "idle",
                                           !.threads[t].has_tracker = TRUE]
                         [] call.initialized = "False" ->
                              [call EXCEPT !.threads[t].pc = "init_107"]
         \/ /\ call.threads[t].pc = "init_107"
            /\ call' = [call EXCEPT !.activities = <<>>,
                                    !.threads[t].pc = "init_108"]
         \/ /\ call.threads[t].pc = "init_108"
            /\ call' = [call EXCEPT !.current_agent = "None",
                                    !.current_node = "None",
                                    !.iteration_count = 0,
                                    !.initialized = "True",
                                    !.inits = @ + 1,
                                    !.threads[t].pc = "idle",
                                    !.threads[t].has_tracker = TRUE]
    /\ UNCHANGED <<other, config, node, state, an, ex, hist>>

\* log_activity, reset, clear, increment_iteration: `with self._lock:` and
\* the body, which no other holder of the lock can interleave with
TrackerMethod ==
    /\ \E t \in TrackerThreads :
         /\ call.lock = 0
         /\ call.threads[t].pc \in
                {"log_activity", "reset", "clear", "increment_iteration"}
         /\ \E done \in {[call EXCEPT !.threads[t].pc = "idle",
                                      !.threads[t].activity = "none"]} :
              call' = CASE call.threads[t].pc = "log_activity" ->
                               log_activity(done, call.threads[t].activity)
                        [] call.threads[t].pc = "reset" -> reset(done)
                        [] call.threads[t].pc = "clear" -> clear(done)
                        [] call.threads[t].pc = "increment_iteration" ->
                               [done EXCEPT !.iteration_count = @ + 1]
    /\ UNCHANGED <<other, config, node, state, an, ex, hist>>

\* a process in which no thread has constructed the tracker yet
TrackerInit ==
    /\ config = [max_refinement_rounds |-> 10, max_debug_attempts |-> 3,
                 use_retriever |-> FALSE, top_k_files |-> 10,
                 analyzer_debugger_configured |-> TRUE,
                 solution_debugger_configured |-> TRUE,
                 unconfigured |-> "none"]
    /\ node = "analyze"
    /\ state = InitialState(<<>>)
    /\ an = AnalyzeIdle
    /\ ex = IdleFrame
    /\ hist = NoHistory
    /\ call = TrackerWorld
    /\ other = NoSession

TrackerNext ==
    \/ TrackerCall
    \/ TrackerNew
    \/ TrackerInitialise
    \/ TrackerMethod

TrackerSpec == TrackerInit /\ [][TrackerNext]_vars

\* ------------------------------------------------------------------------
\* Properties
\* ------------------------------------------------------------------------
\* C1: with max_debug_attempts = N >= 1, one invocation of the Debug-Retry
\* Executor (the loop of _analyze_file for one file, or of execute) performs
\* at most N Sandbox runs and at most N - 1 fixer invocations.
C1_AtMostNRuns ==
    config.max_debug_attempts >= 1 =>
        /\ ex.runs <= config.max_debug_attempts
        /\ ex.fixes <= config.max_debug_attempts - 1
        /\ an.runs <= config.max_debug_attempts
        /\ an.fixes <= config.max_debug_attempts - 1

\* an invocation of execute that has spent its whole budget: N runs, N - 1 fixes
C1_Witness ==
    /\ config.max_debug_attempts >= 2
    /\ ex.pc = "loop"
    /\ ex.runs = config.max_debug_attempts
    /\ ex.fixes = config.max_debug_attempts - 1

\* C2: a Sandbox run that returns success = true ends the loop: the next
\* step of that invocation is its return, with no further run and no fixer
\* call; execute returns that result and the code that was run, and
\* _analyze_file records that run's trimmed stdout as the description.
C2_SuccessStopsLoop ==
    [][ /\ (ex'.runs = ex.runs + 1 /\ ex'.last_result.success)
            => (ex'.pc = "return" /\ ex'.fixes = ex.fixes
                /\ ex'.current_script = ex.current_script)
        /\ (ex.pc = "return")
            => (/\ ex.last_result.success
                /\ ex'.pc = "idle"
                /\ node' = "verify"
                /\ state'.last_execution = ex.last_result
                /\ state'.code = ex.current_script)
        /\ (an'.runs = an.runs + 1 /\ an'.result.success)
            => (an'.pc = "return" /\ an'.fixes = an.fixes
                /\ an'.current_script = an.current_script)
        /\ (an.pc = "return")
            => (/\ an.result.success
                /\ an'.pc = "next"
                /\ Len(an'.descriptions) = Len(an.descriptions) + 1
                /\ an'.descriptions[Len(an'.descriptions)].description
                       = Strip(an.result.output)
                /\ an'.descriptions[Len(an'.descriptions)].script
                       = an.current_script)
      ]_vars

\* execute is about to return a successful first run although attempts remain
C2_Witness ==
    /\ ex.pc = "return"
    /\ ex.last_result.success
    /\ ex.runs = 1
    /\ config.max_debug_attempts >= 2

\* C3: every solve call reaches END; Verify is visited at most
\* max(1, max_refinement_rounds) times, and every Execute is followed by a
\* Verify before the next Execute (no cycle bypasses Verify).
C3_ReachesEnd ==
    /\ <>(node = "END")
    /\ [](/\ hist.verifies <= Max(1, config.max_refinement_rounds)
          /\ hist.executes <= hist.verifies + 1)

\* a run that ended after spending every refinement round
C3_Witness ==
    /\ node = "END"
    /\ config.max_refinement_rounds >= 2
    /\ hist.verifies = config.max_refinement_rounds

\* C4: after every Verify step: SUFFICIENT -> Finalize with reason
\* "verified"; otherwise iteration >= max_refinement_rounds -> Finalize with
\* reason "max_rounds"; otherwise -> Route with no finalization reason set.
C4_DecisionAtVerify ==
    [][ node = "verify" =>
          IF state'.verification = SUFFICIENT
          THEN node' = "finalize" /\ state'.finalization_reason = "verified"
          ELSE IF state'.iteration >= config.max_refinement_rounds
          THEN node' = "finalize" /\ state'.finalization_reason = "max_rounds"
          ELSE node' = "router" /\ state'.finalization_reason = Absent
      ]_vars

\* a SUFFICIENT verdict at a Verify step where the round cap was reached too
C4_Witness ==
    /\ node = "finalize"
    /\ state.verification = SUFFICIENT
    /\ state.iteration >= config.max_refinement_rounds
    /\ state.finalization_reason = "verified"

\* C5: iteration changes only in Verify, by exactly 1 when the verdict is
\* INSUFFICIENT and not at all when it is SUFFICIENT; so iteration always
\* equals the number of INSUFFICIENT verdicts so far, at END too.
C5_IterationCountsInsufficient ==
    /\ [][ /\ state'.iteration # state.iteration => node = "verify"
           /\ node = "verify" =>
                state'.iteration =
                    IF state'.verification = INSUFFICIENT
                    THEN state.iteration + 1 ELSE state.iteration
       ]_vars
    /\ [](state.iteration = hist.insufficient)

\* a finished run that saw two INSUFFICIENT verdicts and then a SUFFICIENT one
C5_Witness ==
    /\ node = "END"
    /\ state.verification = SUFFICIENT
    /\ state.iteration = 2
    /\ hist.verifies = 3

\* C6 as stated: iteration never exceeds max_refinement_rounds
C6_Original ==
    state.iteration <= config.max_refinement_rounds

\* C6, amended: iteration never decreases and never exceeds
\* max(1, max_refinement_rounds).
C6_IterationBounded ==
    /\ [][state'.iteration >= state.iteration]_vars
    /\ [](state.iteration <= Max(1, config.max_refinement_rounds))

\* iteration has reached the configured maximum
C6_Witness ==
    /\ config.max_refinement_rounds >= 2
    /\ state.iteration = config.max_refinement_rounds

\* C7 as stated: the plan is non-empty in every state after Analyze
C7_Original ==
    node # "analyze" => state.plan # <<>>

\* C7, amended: the plan is non-empty in every state after PlanInitial has
\* completed, also after a Route decision of "0" has been applied.
C7_PlanNonEmpty ==
    node \notin {"analyze", "planner_initial"} => state.plan # <<>>

\* PlanNext has applied a rollback to step 0 to a plan of two steps
C7_Witness ==
    /\ node = "coder_next"
    /\ state.router_decision = <<"0">>
    /\ state.iteration = 2
    /\ Len(state.plan) = 1

\* C8: for a decision that parses as an integer k, truncate_plan returns the
\* empty list when k <= 0 and the first min(len(plan), k) steps, in order,
\* when k >= 1.
C8_TruncateInteger ==
    (call.fn = "truncate_plan" /\ ParseInt(call.decision).ok) =>
        LET k == ParseInt(call.decision).val
        IN  /\ k <= 0 => call.result = <<>>
            /\ k >= 1 =>
                 /\ Len(call.result) = Min(Len(call.plan), k)
                 /\ \A i \in 1..Len(call.result) : call.result[i] = call.plan[i]

\* a rollback that cuts a plan of three steps down to two
C8_Witness ==
    /\ call.fn = "truncate_plan"
    /\ ParseInt(call.decision).ok
    /\ ParseInt(call.decision).val = 2
    /\ Len(call.plan) = 3
    /\ Len(call.result) = 2

\* C9: truncate_plan is the identity when the decision, trimmed and
\* lower-cased, is "add step", when it is empty, and when it is any other
\* text that does not parse as an integer.
C9_TruncateIdentity ==
    (/\ call.fn = "truncate_plan"
     /\ \/ Lower(Strip(call.decision)) = AddStep
        \/ call.decision = <<>>
        \/ ~ParseInt(call.decision).ok)
    => call.result = call.plan

\* a malformed decision, neither "add step" nor an integer, on a plan of steps
C9_Witness ==
    /\ call.fn = "truncate_plan"
    /\ call.decision = <<"t", "w", "o">>
    /\ Len(call.plan) = 2
    /\ call.result = call.plan

\* C10: evaluate classifies by case-insensitive substring search: contains
\* "insufficient" -> INSUFFICIENT; else contains "sufficient" -> SUFFICIENT;
\* else INSUFFICIENT.
C10_Classification ==
    call.fn = "evaluate" =>
        LET text == Lower(call.text)
        IN  /\ Contains(text, WordInsufficient) => call.result.result = INSUFFICIENT
            /\ (~Contains(text, WordInsufficient) /\ Contains(text, WordSufficient))
                 => call.result.result = SUFFICIENT
            /\ ~Contains(text, WordSufficient) => call.result.result = INSUFFICIENT
            /\ call.result.result \in {SUFFICIENT, INSUFFICIENT}

\* a response that holds both words, classified INSUFFICIENT
C10_Witness ==
    /\ call.fn = "evaluate"
    /\ Contains(Lower(call.text), WordInsufficient)
    /\ Contains(Lower(call.text), <<" ", "s", "u", "f", "f", "i", "c", "i", "e", "n", "t">>)
    /\ call.result.result = INSUFFICIENT

\* the child process of a call of run was started and ended in the way `kind`
ChildExited(env, kind) ==
    env.create = "ok" /\ env.write = "ok" /\ env.child = kind

\* C11: PythonScriptRunner.run never raises for an execution failure: every
\* call returns one ExecutionResult, with success = true exactly when the
\* child exited with code 0; a non-zero exit gives success = false with
\* error = traceback = stderr and output = stdout; a timeout gives
\* success = false, output = "" and error = "Execution timeout"; any host-side
\* failure gives success = false with error set to the exception text.
C11_RunOutcomeClasses ==
    call.fn = "run" =>
        LET env == call.env
            result == call.returned.result
        IN  /\ ~call.returned.raised
            /\ result.success <=> ChildExited(env, "exit0")
            /\ ChildExited(env, "nonzero") =>
                   /\ ~result.success
                   /\ result.error = env.stderr
                   /\ result.traceback = env.stderr
                   /\ result.output = env.stdout
            /\ ChildExited(env, "timeout") =>
                   /\ ~result.success
                   /\ result.output = <<>>
                   /\ result.error = TimeoutError
            /\ (env.create # "ok" \/ env.write # "ok" \/ env.child = "oserror") =>
                   /\ ~result.success
                   /\ result.error \in { ExceptionText(step) :
                                           step \in {"create", "write", "launch", "unlink"} }

\* C12: on every exit path of run, a failure while writing the source text
\* into the freshly created temporary file included, the temporary script
\* file created by the call no longer exists when run returns.
C12_TempFileRemoved ==
    (call.fn = "run" /\ call.returned.temp_file_created) =>
        ~call.returned.temp_file_exists

\* C13: analyze_files (retriever disabled) returns one DataDescription per
\* attached file, in input order; a file whose every Sandbox run failed gets
\* the description "ERROR: Failed to analyze file after <max_attempts>
\* attempts." + newline + the trimmed error-or-output of its last run, and the
\* files after it are still analysed.
C13_OneDescriptionPerFile ==
    /\ [](node = "planner_initial" =>
            /\ Len(state.data_descriptions) = Len(state.data_files)
            /\ \A i \in 1..Len(state.data_files) :
                 state.data_descriptions[i].file_path = state.data_files[i])
    /\ [][(an.pc \in {"loop", "return"} /\ an'.pc = "next") =>
            /\ an'.descriptions[an.idx].file_path = state.data_files[an.idx]
            /\ Len(an'.descriptions) = an.idx
            /\ SubSeq(an'.descriptions, 1, an.idx - 1) = an.descriptions
            /\ (an.runs >= 1 /\ ~an.result.success) =>
                   an'.descriptions[an.idx].description =
                       ErrorHead \o IntText(config.max_debug_attempts) \o ErrorTail
                           \o Strip(IF an.result.error # <<>>
                                    THEN an.result.error ELSE an.result.output)]_vars

\* the first file failed twice with different errors, the second succeeded
C13_Witness ==
    /\ node = "planner_initial"
    /\ Len(state.data_descriptions) = 2
    /\ state.data_descriptions[1].description =
           ErrorHead \o <<"2">> \o ErrorTail \o <<"o", "u", "t">>
    /\ state.data_descriptions[2].description = <<"4", "2">>

\* C14: in every run that reaches END, Finalize has executed exactly once and
\* is the last phase before END; its outputs are the finalizer's code, a copy
\* of the plan, a copy of the whole observation history, and the finalization
\* reason set by the preceding Verify; the default "verified" is used only
\* when no reason was set and never replaces "max_rounds".
C14_FinalizeOnceAtEnd ==
    /\ [](hist.finalizes = IF node = "END" THEN 1 ELSE 0)
    /\ [](node = "END" =>
            /\ state.final_code = Generated("finalyzer", 0)
            /\ state.final_code # state.code
            /\ state.final_plan = state.plan
            /\ state.final_execution_results = state.execution_results
            /\ state.finalization_reason =
                   IF state.verification = SUFFICIENT THEN "verified"
                   ELSE "max_rounds")
    /\ [][node' = "END" =>
            /\ node = "finalize"
            /\ state.finalization_reason \in {"verified", "max_rounds"}
            /\ state'.finalization_reason = state.finalization_reason
            /\ state'.plan = state.plan
            /\ state'.execution_results = state.execution_results]_vars

\* a run ended by the cap, with a plan and a history of more than one entry
C14_Witness ==
    /\ node = "END"
    /\ state.finalization_reason = "max_rounds"
    /\ Len(state.final_plan) >= 2
    /\ Len(state.final_execution_results) >= 2

\* the run is over, analysis described every file from a successful run, the
\* solution run of the only Execute succeeded and no verdict was INSUFFICIENT
FirstVerdictSufficient ==
    /\ node = "END"
    /\ \A i \in 1..Len(state.data_descriptions) :
         state.data_descriptions[i].description = Strip(OkOut)
    /\ state.last_execution # NoExecution
    /\ state.last_execution.success
    /\ hist.insufficient = 0

\* C15: if analysis succeeds, the initial solution run succeeds and the first
\* Verify verdict is SUFFICIENT, solve returns after exactly one Execute and
\* one Verify, without visiting Route, with final_plan of length 1,
\* finalization_reason "verified", iteration 0 and an observation history of
\* length 1.
C15_FirstRoundSuffices ==
    FirstVerdictSufficient =>
        /\ hist.executes = 1
        /\ hist.verifies = 1
        /\ hist.routes = 0
        /\ Len(solve_result(state).final_plan) = 1
        /\ state.finalization_reason = "verified"
        /\ state.iteration = 0
        /\ Len(solve_result(state).final_execution_results) = 1

\* such a run, with one attached file
C15_Witness ==
    /\ FirstVerdictSufficient
    /\ Len(state.data_descriptions) = 1
    /\ solve_result(state).final_execution_results = << <<"4", "2">> >>

\* C16: Route is entered only immediately after a Verify whose verdict is
\* INSUFFICIENT and whose post-increment iteration is below
\* max_refinement_rounds; with max_refinement_rounds = 1 a first INSUFFICIENT
\* verdict makes iteration 1 and the run finalizes with "max_rounds" without
\* visiting Route.
C16_RouteOnlyBelowCap ==
    /\ [][node' = "router" =>
            /\ node = "verify"
            /\ state'.verification = INSUFFICIENT
            /\ state'.iteration = state.iteration + 1
            /\ state'.iteration < config.max_refinement_rounds]_vars
    /\ [](config.max_refinement_rounds = 1 =>
            /\ node # "router"
            /\ hist.routes = 0
            /\ hist.insufficient <= 1
            /\ (hist.insufficient = 1 =>
                    /\ state.iteration = 1
                    /\ state.finalization_reason = "max_rounds"
                    /\ node \in {"finalize", "END"}))

\* Route entered for the second time, below a cap of three rounds
C16_Witness ==
    /\ node = "router"
    /\ state.iteration = 2
    /\ hist.routes = 1

\* C17: when the generation capability raises during plan (initial or next),
\* route, verify or finalize, the core does not catch the error: solve aborts
\* with it, no later phase runs and no result triple is returned.
C17_GenerationErrorAborts ==
    /\ [][(/\ hist'.error = "generation"
           /\ hist'.error_at \in {"planner_initial", "planner_next", "router",
                                  "verify", "finalize"}
           /\ hist.error = "none") =>
              /\ node' = "ABORTED"
              /\ hist'.error_at = node
              /\ state' = state]_vars
    /\ [][hist.error = "none" /\ node # "ABORTED"]_vars
    /\ [](hist.error # "none" =>
            /\ node = "ABORTED"
            /\ hist.finalizes = 0
            /\ state.final_code = NoCode
            /\ state.final_plan = <<>>)

\* the planner raised while writing the step of the second refinement round
C17_Witness ==
    /\ node = "ABORTED"
    /\ hist.error = "generation"
    /\ hist.error_at = "planner_next"
    /\ hist.routes = 2

\* the graph node of the phase that uses prompt `key`
PhaseNode(key) ==
    CASE key = "analyzer" -> "analyze"
      [] key = "verifier" -> "verify"
      [] key = "finalyzer" -> "finalize"
      [] OTHER -> key

\* a configuration error ended the run at node `at`: every phase before that
\* node has run normally
PhasesBeforeRan(at) ==
    CASE at = "analyze" ->
           state.data_descriptions = <<>> /\ state.plan = <<>>
      [] at = "planner_initial" ->
           /\ Len(state.data_descriptions) = Len(state.data_files)
           /\ state.plan = <<>>
      [] at = "coder_initial" ->
           /\ Len(state.data_descriptions) = Len(state.data_files)
           /\ state.plan = <<Generated("planner_initial", 0)>>
           /\ state.code = NoCode
      [] at = "verify" ->
           /\ state.code # NoCode
           /\ hist.executes = 1
           /\ Len(state.execution_results) = 1
           /\ hist.verifies = 0
      [] at = "router" ->
           /\ hist.verifies = 1
           /\ state.verification = INSUFFICIENT
           /\ state.iteration = 1
           /\ hist.routes = 0
      [] at = "planner_next" ->
           /\ hist.routes = 1
           /\ state.router_decision # None
           /\ state.plan = <<Generated("planner_initial", 0)>>
      [] at = "coder_next" ->
           /\ hist.routes = 1
           /\ state.plan[Len(state.plan)] = Generated("planner_next", 1)
           /\ state.code # Generated("coder_next", 1)
      [] at = "finalize" ->
           /\ hist.verifies = hist.executes
           /\ hist.verifies >= 1
           /\ state.finalization_reason \in {"verified", "max_rounds"}

\* C18 as stated: a missing prompt is not detected at construction; for each
\* of the phases analyze, initial plan, next plan, initial code, next code,
\* verify, route and finalize, invoking the phase while its prompt is
\* unconfigured raises a configuration error at that phase, and every phase
\* before it has already run normally.
C18_Original ==
    /\ [][(/\ config.unconfigured # "none"
           /\ node = PhaseNode(config.unconfigured)) =>
              /\ node' = "ABORTED"
              /\ hist'.error = "configuration"
              /\ hist'.error_at = node]_vars
    /\ [](hist.error = "configuration" => PhasesBeforeRan(hist.error_at))

\* C18, amended: the configuration error is raised when the agent of the
\* phase is invoked, which Analyze does only for an attached file; Finalize
\* with an unconfigured prompt raises nothing and returns the code unchanged.
C18_ErrorAtPhaseOfUse ==
    /\ [][(/\ config.unconfigured \in PhasePrompts \ {"finalyzer"}
           /\ Invoked(config.unconfigured)) =>
              /\ node' = "ABORTED"
              /\ hist'.error = "configuration"
              /\ hist'.error_at = node
              /\ state' = state]_vars
    /\ [][(/\ config.unconfigured = "analyzer"
           /\ node = "analyze"
           /\ state.data_files = <<>>) =>
              /\ node' = "planner_initial"
              /\ hist'.error = "none"]_vars
    /\ [][(config.unconfigured = "finalyzer" /\ node = "finalize") =>
              /\ node' = "END"
              /\ hist'.error = "none"
              /\ state'.final_code = state.code
              /\ PhasesBeforeRan("finalize")]_vars
    /\ [](hist.error = "configuration" =>
            /\ hist.error_at = PhaseNode(config.unconfigured)
            /\ PhasesBeforeRan(hist.error_at))

\* the next-code prompt is missing: the run aborts in the first refinement
\* round, after Route and PlanNext have run
C18_Witness ==
    /\ node = "ABORTED"
    /\ hist.error = "configuration"
    /\ hist.error_at = "coder_next"
    /\ Len(state.plan) = 2

\* the solve call with number `id` (1 was started on no file, 2 on a.csv)
SessionOf(id) == IF other.id = id THEN other.session ELSE Running

\* what a solve call running alone satisfies at each of its steps: its state
\* holds its own files, one description per file once Analyze is over, one
\* observation per Execute it has completed, and a count of its own
\* INSUFFICIENT verdicts; at END its triple is its own plan and history
AsIfAlone(s, data_files) ==
    /\ s.state.data_files = data_files
    /\ Len(s.state.data_descriptions) =
           IF s.node = "analyze" THEN 0 ELSE Len(data_files)
    /\ s.state.iteration = s.hist.insufficient
    /\ Len(s.state.execution_results) =
           IF s.node = "execute" /\ s.ex.pc # "idle"
           THEN s.hist.executes - 1 ELSE s.hist.executes
    /\ s.hist.routes <= s.hist.insufficient
    /\ Len(s.state.plan) <= 1 + s.hist.routes
    /\ s.node = "END" =>
           /\ s.hist.verifies = s.hist.executes
           /\ s.hist.executes = 1 + s.hist.routes
           /\ solve_result(s.state).final_plan = s.state.plan
           /\ solve_result(s.state).final_execution_results
                  = s.state.execution_results
           /\ s.state.plan[Len(s.state.plan)] =
                  IF s.hist.routes = 0 THEN Generated("planner_initial", 0)
                  ELSE Generated("planner_next", s.hist.routes)
           /\ s.state.code =
                  IF s.hist.routes = 0 THEN Generated("coder_initial", 0)
                  ELSE Generated("coder_next", s.hist.routes)

\* C19: two solve calls whose phase steps interleave on the same engine each
\* own a separate session state: no step of one reads or writes the other's
\* plan, code, last_execution, history, iteration or finalization reason, so
\* each call's final triple is the one it would produce running alone.
C19_SessionsIsolated ==
    /\ [](AsIfAlone(SessionOf(1), <<>>) /\ AsIfAlone(SessionOf(2), <<"a.csv">>))
    /\ [][config' = config]_vars
    /\ [][other'.id = other.id => other' = other]_vars
    /\ [][other'.id # other.id =>
            /\ other'.session = Running
            /\ node' = other.session.node
            /\ state' = other.session.state]_vars

\* both calls have returned, one after a refinement round and one without
C19_Witness ==
    /\ node = "END"
    /\ other.session.node = "END"
    /\ Len(state.final_plan) = 2
    /\ Len(other.session.state.final_plan) = 1
    /\ Len(state.final_execution_results) = 2
    /\ Len(other.session.state.final_execution_results) = 1

\* C20: select_relevant returns the descriptions unchanged unless
\* use_retriever is true and there are more descriptions than top_k_files; in
\* that case it returns exactly the first top_k_files descriptions, in their
\* original order, whatever the query.
C20_SelectRelevant ==
    call.fn = "select_relevant" =>
        LET k == call.cfg.top_k_files
            d == call.descriptions
        IN  /\ ~(call.cfg.use_retriever /\ Len(d) > k) => call.result = d
            /\ (call.cfg.use_retriever /\ Len(d) > k) =>
                   /\ Len(call.result) = k
                   /\ \A i \in 1..k : call.result[i] = d[i]
            /\ \A query \in Queries :
                   select_relevant(call.cfg, query, d) = call.result

\* three descriptions cut to the first two, which differ from the last two
C20_Witness ==
    /\ call.fn = "select_relevant"
    /\ call.cfg.use_retriever
    /\ call.cfg.top_k_files = 2
    /\ Len(call.descriptions) = 3
    /\ call.descriptions[1].file_path # call.descriptions[3].file_path
    /\ Len(call.result) = 2

\* C21: when every Sandbox run of the solution has failed and the retry
\* budget is exhausted, Execute does not abort the run: it commits
\* last_execution with success = false, appends the failure observation to
\* the history, and the run goes on to Verify; solve still ends with a result
\* triple.
C21_FailedExecuteGoesOn ==
    /\ [][(node = "execute" /\ ex.pc = "loop"
           /\ ex.attempt >= config.max_debug_attempts) =>
              /\ ~ex.last_result.success
              /\ node' = "verify"
              /\ state'.last_execution = ex.last_result
              /\ state'.code = ex.current_script
              /\ state'.execution_results =
                     Append(state.execution_results,
                            Strip(IF Truthy(ex.last_result.error)
                                  THEN ex.last_result.error
                                  ELSE ex.last_result.output))]_vars
    /\ (node = "verify" /\ ~state.last_execution.success) ~>
           (node = "END" /\ state.final_code # NoCode /\ state.final_plan # <<>>
            /\ state.final_execution_results # <<>>)

\* two runs failed, the second of the fixer's script, and the run is at Verify
C21_Witness ==
    /\ node = "verify"
    /\ config.max_debug_attempts = 2
    /\ state.code = Generated("debugger_solution", 1)
    /\ ~state.last_execution.success
    /\ state.execution_results = << <<"E", "r", "r">> >>

\* C22: in both Debug-Retry loops (analysis and solution), when a Sandbox run
\* fails and no configured fixer exists, the loop stops without another
\* Sandbox run: the candidate code is run exactly once and the outcome that is
\* returned or recorded is that first failure.
C22_NoFixerStopsLoop ==
    /\ (~config.solution_debugger_configured /\ node = "execute") => ex.runs <= 1
    /\ (~config.analyzer_debugger_configured /\ node = "analyze") => an.runs <= 1

\* C23: in the Debug-Retry loops the fixer is invoked only immediately after a
\* Sandbox run that returned success = false, never after a successful run and
\* never after the run of the last allowed attempt (index max_attempts - 1);
\* every fixer invocation is followed by a Sandbox run of the fixer's output
\* within the same invocation of the loop.
C23_FixerOnlyBetweenRuns ==
    /\ [][(ex.pc = "loop" /\ ex'.fixes = ex.fixes + 1) =>
            /\ ex'.runs = ex.runs + 1
            /\ ~ex'.last_result.success
            /\ ex.attempt < config.max_debug_attempts - 1
            /\ ex'.pc = "loop"
            /\ ex'.attempt < config.max_debug_attempts
            /\ ex'.current_script = Generated("debugger_solution", ex'.fixes)]_vars
    /\ [][(an.pc = "loop" /\ an'.fixes = an.fixes + 1) =>
            /\ an'.runs = an.runs + 1
            /\ ~an'.result.success
            /\ an.attempt < config.max_debug_attempts - 1
            /\ an'.pc = "loop"
            /\ an'.attempt < config.max_debug_attempts
            /\ an'.current_script = Generated("debugger_analyzer", an'.fixes)]_vars
    /\ [][(ex'.runs = ex.runs + 1 => ex'.ran = ex.current_script)
          /\ (an'.runs = an.runs + 1 => an'.ran = an.current_script)]_vars
    /\ []((ex.fixes >= 1
           /\ (ex.pc = "return" \/ ex.attempt >= config.max_debug_attempts)) =>
              ex.ran = ex.current_script)
    /\ []((an.fixes >= 1
           /\ (an.pc = "return" \/ an.attempt >= config.max_debug_attempts)) =>
              an.ran = an.current_script)

\* the fixer was invoked once and the run of its script succeeded
C23_Witness ==
    /\ ex.pc = "return"
    /\ ex.fixes = 1
    /\ ex.runs = 2
    /\ ex.ran = Generated("debugger_solution", 1)
    /\ ex.last_result.success

\* C24: a failure of the traceback summarizer never aborts the retry loop: if
\* the summarizer raises or is unconfigured, the failure summary passed to the
\* fixer is the trimmed raw traceback, falling back to the error text, falling
\* back to the empty text.
C24_SummarizerFallback ==
    call.fn = "_summarize_traceback" =>
        /\ ~call.returned.raised
        /\ call.mode \in {"absent", "unconfigured", "raises"} =>
               call.returned.summary =
                   IF call.result.traceback \notin {None, <<>>}
                   THEN Strip(call.result.traceback)
                   ELSE IF call.result.error \notin {None, <<>>}
                   THEN Strip(call.result.error)
                   ELSE <<>>

\* the summarizer's generation raised on a result with both texts
C24_Witness ==
    /\ call.fn = "_summarize_traceback"
    /\ call.mode = "raises"
    /\ call.result.error = ErrText
    /\ call.returned.summary = <<"t", "b">>

\* C25: in the PlanNext phase the router decision is applied by truncate
\* before the next step is generated and appended: the generator is given the
\* truncated plan, and the committed plan is truncate(previous plan, decision)
\* with the newly generated step appended as its last element.
C25_TruncateThenAppend ==
    [][(node = "planner_next" /\ node' = "coder_next") =>
          /\ hist'.planner_given = truncate_plan(state.plan, state.router_decision)
          /\ state'.plan = Append(truncate_plan(state.plan, state.router_decision),
                                  Generated("planner_next", state.iteration))
          /\ Len(state'.plan) =
                 Len(truncate_plan(state.plan, state.router_decision)) + 1
          /\ state'.plan[Len(state'.plan)] =
                 Generated("planner_next", state.iteration)]_vars

\* a rollback to one step was applied to a two-step plan, and the new step
\* was appended after it
C25_Witness ==
    /\ node = "coder_next"
    /\ hist.routes = 2
    /\ state.router_decision = <<"1">>
    /\ hist.planner_given = <<Generated("planner_initial", 0)>>
    /\ state.plan = <<Generated("planner_initial", 0), Generated("planner_next", 2)>>

\* C26: the run-wide observation history is append-only: every Execute phase,
\* whether its final result is a success or a failure, appends exactly one
\* observation at the end, and no phase removes, reorders or rewrites earlier
\* entries (a rollback decision truncates the plan but not the history).
C26_HistoryAppendOnly ==
    [][/\ (node = "execute" /\ node' = "verify") =>
              /\ Len(state'.execution_results) = Len(state.execution_results) + 1
              /\ SubSeq(state'.execution_results, 1, Len(state.execution_results))
                     = state.execution_results
              /\ state'.execution_results[Len(state'.execution_results)] =
                     IF ex.last_result.success
                     THEN Strip(ex.last_result.output)
                     ELSE IF ex.last_result.error \notin {None, <<>>}
                     THEN Strip(ex.last_result.error)
                     ELSE Strip(ex.last_result.output)
       /\ ~(node = "execute" /\ node' = "verify") =>
              state'.execution_results = state.execution_results]_vars

\* after a failed and a successful Execute and a rollback to the empty plan,
\* both observations are still there
C26_Witness ==
    /\ node = "coder_next"
    /\ state.router_decision = <<"0">>
    /\ Len(state.plan) = 1
    /\ state.execution_results = <<Strip(ErrText), Strip(OkOut)>>

\* C27 as stated: the observation history holds one entry per Sandbox
\* execution attempt, so an Execute phase that made ex.runs attempts adds
\* ex.runs entries (counted when the phase commits).
C27_Original ==
    [][(node = "execute" /\ node' = "verify") =>
          Len(state'.execution_results) = Len(state.execution_results) + ex.runs]_vars

\* C27: the observation history holds one entry per completed Execute phase,
\* whatever the number of Sandbox attempts the phase made: at every point its
\* length is the number of Execute phases completed so far in the run.
C27_OneEntryPerExecutePhase ==
    /\ Len(state.execution_results) =
           IF node = "execute" /\ ex.pc # "idle"
           THEN hist.executes - 1 ELSE hist.executes
    /\ node \in {"verify", "router", "planner_next", "coder_next", "finalize", "END"}
           => Len(state.execution_results) = state.iteration +
                  (IF node = "verify" \/ state.verification = SUFFICIENT
                   THEN 1 ELSE 0)

\* the first Execute phase ran the Sandbox twice (a failure, a fix, a success)
\* and the history has one entry
C27_Witness ==
    /\ node = "verify"
    /\ hist.executes = 1
    /\ state.code = Generated("debugger_solution", 1)
    /\ state.last_execution.success
    /\ state.execution_results = <<Strip(OkOut)>>

\* C28: the execution observation is the trimmed stdout when the last
\* execution succeeded; otherwise the trimmed error text, falling back to the
\* trimmed stdout when the error text is empty; and the empty text when there
\* is no execution yet.
C28_ExecutionObservation ==
    call.fn = "_execution_observation" =>
        call.returned =
            IF call.execution = NoExecution THEN <<>>
            ELSE IF call.execution.success
            THEN IF call.execution.output \in {None, <<>>} THEN <<>>
                 ELSE Strip(call.execution.output)
            ELSE IF call.execution.error \notin {None, <<>>}
            THEN Strip(call.execution.error)
            ELSE IF call.execution.output \notin {None, <<>>}
            THEN Strip(call.execution.output)
            ELSE <<>>

\* a failed execution without error text: the observation is its stdout
C28_Witness ==
    /\ call.fn = "_execution_observation"
    /\ call.execution # NoExecution
    /\ ~call.execution.success
    /\ call.execution.error = <<>>
    /\ call.execution.output = OkOut
    /\ call.returned = <<"4", "2">>

\* C29: a SUFFICIENT verdict always wins over the round cap: in every run that
\* reaches END, finalization_reason is "verified" if and only if the last
\* Verify verdict was SUFFICIENT (even when iteration >= max_refinement_rounds
\* held at that Verify), and "max_rounds" if and only if it was INSUFFICIENT.
C29_SufficientWinsAtEnd ==
    node = "END" =>
        /\ state.finalization_reason \in {"verified", "max_rounds"}
        /\ state.finalization_reason = "verified"
               <=> state.verification = SUFFICIENT
        /\ state.finalization_reason = "max_rounds"
               <=> state.verification = INSUFFICIENT

\* a run with max_refinement_rounds = 0 whose only verdict was SUFFICIENT
C29_Witness ==
    /\ node = "END"
    /\ config.max_refinement_rounds = 0
    /\ hist.verifies = 1
    /\ state.iteration >= config.max_refinement_rounds
    /\ state.verification = SUFFICIENT
    /\ state.finalization_reason = "verified"

\* C30: the phase trace of every run is a prefix of Analyze, PlanInitial,
\* CodeInitial, Execute, Verify, (Route, PlanNext, CodeNext, Execute, Verify)*,
\* Finalize, END: one phase at a time, every Execute immediately followed by
\* Verify, every Route by PlanNext then CodeNext then Execute, and Analyze,
\* PlanInitial and CodeInitial each run exactly once.
C30_PhaseTrace ==
    [][/\ node' # node =>
              <<node, node'>> \in
                  { <<"analyze", "planner_initial">>,
                    <<"planner_initial", "coder_initial">>,
                    <<"coder_initial", "execute">>,
                    <<"execute", "verify">>,
                    <<"verify", "finalize">>,
                    <<"verify", "router">>,
                    <<"router", "planner_next">>,
                    <<"planner_next", "coder_next">>,
                    <<"coder_next", "execute">>,
                    <<"finalize", "END">> }
       /\ node' = "END" =>
              /\ hist'.executes = hist'.routes + 1
              /\ hist'.verifies = hist'.routes + 1
              /\ hist'.finalizes = 1
              /\ Len(state'.plan) >= 1
              /\ state'.code # NoCode]_vars

\* a run that went twice round the refinement loop and ended
C30_Witness ==
    /\ node = "END"
    /\ hist.routes = 2
    /\ hist.executes = 3
    /\ hist.verifies = 3
    /\ hist.finalizes = 1

\* C31 as stated: each generate call makes a single underlying model
\* invocation, and a call whose invocation fails or yields no usable text
\* ends in an error.
C31_Original ==
    /\ call.invocations <= 1
    /\ call.pc = "returned" => call.outcome = "text"

\* C31: a failed invocation is never retried and is surfaced to the caller.
\* OpenRouterClient.generate makes one request per call: a transport error,
\* an HTTP error status or a malformed body is raised, and an empty or null
\* content is returned as it is. GeminiClient.generate raises as soon as an
\* invocation raises; it makes a second invocation only after a first one
\* that returned no text with finish reason MAX_TOKENS below max_output_limit,
\* and raises when an invocation returns no text and no retry is left.
C31_FailuresSurface ==
    [][/\ call.client.kind = "openrouter" /\ call.pc = "invoke" =>
              /\ call'.invocations = 1
              /\ call'.pc \in {"returned", "raised"}
              /\ call'.pc = "raised" <=>
                     call'.last_response \in
                         {"transport_error", "http_error", "malformed_body"}
              /\ call'.last_response = "content_empty" => call'.outcome = "empty"
              /\ call'.last_response = "content_none" => call'.outcome = "None"
       /\ call.client.kind = "gemini" /\ call.pc = "invoke" =>
              /\ call'.invocations = call.invocations + 1
              /\ call'.invocations <= 2
              /\ call'.last_response.raises =>
                     call'.pc = "raised" /\ call'.outcome = "RuntimeError"
              /\ call'.pc = "returned" <=> call'.last_response.text
              /\ call'.pc = "invoke" =>
                     /\ call.invocations = 0
                     /\ ~call'.last_response.raises
                     /\ ~call'.last_response.text
                     /\ call'.last_response.max_tokens_reason
                     /\ call.current_max_tokens < call.client.max_output_limit
              /\ (~call'.last_response.text /\ call.invocations = 1) =>
                     call'.pc = "raised"]_vars

\* a Gemini call whose first invocation returned no text, was retried, and
\* whose second invocation raised: the error is surfaced after two invocations
C31_Witness ==
    /\ call.client.kind = "gemini"
    /\ call.pc = "raised"
    /\ call.invocations = 2
    /\ call.last_response.raises
    /\ call.outcome = "RuntimeError"

\* C40: every GeminiClient.generate call terminates after at most two model
\* invocations: a second invocation happens only when the first returned no
\* text, some candidate's finish reason is MAX_TOKENS and the current token
\* limit is below max_output_limit; the retry limit is
\* min(max_output_limit, 2 x current limit); the client's max_tokens is
\* changed only after a retry that returned text, never exceeds
\* max_output_limit and never decreases.
C40_GeminiRetryBounded ==
    /\ [](call.client.kind = "gemini" =>
              /\ call.invocations <= 2
              /\ call.client.max_tokens <= call.client.max_output_limit)
    /\ [][call.client.kind = "gemini" =>
              /\ (call.pc = "invoke" /\ call'.pc = "invoke") =>
                     /\ call.invocations = 0
                     /\ call'.invocations = 1
                     /\ ~call'.last_response.raises
                     /\ ~call'.last_response.text
                     /\ call'.last_response.max_tokens_reason
                     /\ call.current_max_tokens < call.client.max_output_limit
                     /\ call'.current_max_tokens =
                            IF 2 * call.current_max_tokens
                                   <= call.client.max_output_limit
                            THEN 2 * call.current_max_tokens
                            ELSE call.client.max_output_limit
              /\ (call.pc = "invoke" /\ call.invocations = 1) =>
                     /\ call'.pc \in {"returned", "raised"}
                     /\ call'.limits = <<call.initial_max_tokens,
                                         call.current_max_tokens>>
              /\ call'.client.max_tokens # call.client.max_tokens =>
                     /\ call.pc = "invoke"
                     /\ call.invocations = 1
                     /\ call.attempted_max_retry
                     /\ call'.pc = "returned"
                     /\ call'.last_response.text
                     /\ call'.client.max_tokens = call.current_max_tokens
                     /\ call'.client.max_tokens > call.client.max_tokens
              /\ call'.client.max_output_limit = call.client.max_output_limit]_vars
    /\ (call.client.kind = "gemini" /\ call.pc = "invoke")
           ~> (call.pc \in {"returned", "raised"})

\* a call with limit 1 was retried with limit 2, returned text, and the
\* client's max_tokens went from 1 to 2
C40_Witness ==
    /\ call.client.kind = "gemini"
    /\ call.pc = "returned"
    /\ call.invocations = 2
    /\ call.limits = <<1, 2>>
    /\ call.initial_max_tokens = 1
    /\ call.client.max_tokens = 2
    /\ call.client.max_output_limit > 2

\* C32: the list of DataDescriptions is written once, by the Analyze phase,
\* and is left unchanged by every later phase; the query and the list of data
\* file paths are never changed during a solve call.
C32_DescriptionsWrittenOnce ==
    [][/\ state'.query = state.query
       /\ state'.data_files = state.data_files
       /\ state'.data_descriptions # state.data_descriptions =>
              /\ node = "analyze"
              /\ node' = "planner_initial"
              /\ state.data_descriptions = <<>>
       /\ node # "analyze" =>
              state'.data_descriptions = state.data_descriptions]_vars

\* a run over one file that went round the refinement loop and ended with
\* the description Analyze wrote
C32_Witness ==
    /\ node = "END"
    /\ hist.routes >= 1
    /\ state.data_files = <<"a.csv">>
    /\ Len(state.data_descriptions) = 1
    /\ state.data_descriptions[1].file_path = "a.csv"

\* C33: for max_debug_attempts >= 1, the (code, result) pair returned by
\* execute is consistent: the result is the outcome of the last Sandbox run
\* and that run executed exactly the returned code; Execute commits both
\* together, so at every Verify, Route, CodeNext and Finalize step the
\* session's code is the code whose run produced last_execution.
C33_CodeMatchesResult ==
    /\ [](config.max_debug_attempts >= 1 /\ node \in
              {"verify", "router", "planner_next", "coder_next", "finalize", "END"}
          => /\ hist.ran_code = state.code
             /\ state.code # NoCode
             /\ state.last_execution # NoExecution)
    /\ [][(config.max_debug_attempts >= 1 /\ node = "execute" /\ node' = "verify")
          => /\ ex.runs >= 1
             /\ ex.ran = ex.current_script
             /\ state'.code = ex.current_script
             /\ state'.last_execution = ex.last_result
             /\ ex.fixes >= 1 =>
                    ex.current_script = Generated("debugger_solution", ex.fixes)]_vars

\* the first Execute ran a fixer revision, which failed; it is the session's
\* code together with its failure
C33_Witness ==
    /\ node = "router"
    /\ hist.executes = 1
    /\ state.code = Generated("debugger_solution", 1)
    /\ hist.ran_code = Generated("debugger_solution", 1)
    /\ ~state.last_execution.success

\* C34: for max_refinement_rounds >= 1, in every run that reaches END the
\* number of Execute phases equals the length of the returned observation
\* history, which equals iteration + 1 when finalization_reason is "verified"
\* and equals iteration (= max_refinement_rounds) when it is "max_rounds"; the
\* Route phase ran exactly (history length - 1) times.
C34_RoundCountsAtEnd ==
    (config.max_refinement_rounds >= 1 /\ node = "END") =>
        /\ hist.executes = Len(solve_result(state).final_execution_results)
        /\ state.finalization_reason = "verified" =>
               Len(solve_result(state).final_execution_results)
                   = state.iteration + 1
        /\ state.finalization_reason = "max_rounds" =>
               /\ Len(solve_result(state).final_execution_results)
                      = state.iteration
               /\ state.iteration = config.max_refinement_rounds
        /\ hist.routes = Len(solve_result(state).final_execution_results) - 1

\* a run that used its two rounds up and ended on the cap
C34_Witness ==
    /\ node = "END"
    /\ config.max_refinement_rounds = 2
    /\ state.finalization_reason = "max_rounds"
    /\ Len(solve_result(state).final_execution_results) = 2
    /\ hist.routes = 1

\* C35: for any sequence of router decisions, each PlanNext step leaves the
\* plan with length between 1 and (previous length + 1); at every state after
\* PlanInitial the plan length is at most the number of Execute phases started
\* so far plus one and at most max(1, max_refinement_rounds); the steps kept
\* by a rollback are an unchanged prefix of the previous plan.
C35_PlanLengthBounds ==
    /\ [](node \notin {"analyze", "planner_initial"} =>
              /\ Len(state.plan) >= 1
              /\ Len(state.plan) <= hist.executes + 1
              /\ Len(state.plan) <= (IF config.max_refinement_rounds >= 1
                                     THEN config.max_refinement_rounds ELSE 1))
    /\ [][(node = "planner_next" /\ node' = "coder_next") =>
              /\ Len(state'.plan) >= 1
              /\ Len(state'.plan) <= Len(state.plan) + 1
              /\ \A i \in 1..(Len(state'.plan) - 1) :
                     state'.plan[i] = state.plan[i]]_vars

\* a plan that grew to the most that max_refinement_rounds = 3 allows
C35_Witness ==
    /\ node = "coder_next"
    /\ config.max_refinement_rounds = 3
    /\ hist.routes = 2
    /\ hist.executes = 2
    /\ Len(state.plan) = 3

\* C36: DSSTAR.set_prompt with an agent name that is not one of the eleven
\* recognised phase identifiers raises the unknown-agent error and leaves the
\* engine's prompt table and every agent's prompt unchanged, for any set of
\* prompt files loaded at construction.
C36_UnknownAgentRejected ==
    [][call'.agent_name \notin PROMPT_KEYS =>
           /\ call'.outcome = "ValueError"
           /\ call'.prompts = call.prompts
           /\ call'.agents = call.agents]_vars

\* C37: with max_debug_attempts <= 0 the Debug-Retry Executor performs no
\* Sandbox run and no fixer call: execute returns the input script unchanged
\* with a result of success = false and empty output, error and traceback (so
\* the observation is the empty text), and _analyze_file records an empty
\* description rather than the "ERROR: Failed to analyze file" string.
C37_NoAttemptsNoRuns ==
    /\ [](config.max_debug_attempts <= 0 =>
              /\ ex.runs = 0 /\ ex.fixes = 0
              /\ an.runs = 0 /\ an.fixes = 0
              /\ \A i \in 1..Len(state.data_descriptions) :
                     /\ state.data_descriptions[i].description = <<>>
                     /\ state.data_descriptions[i].script = Generated("analyzer", i)
                     /\ state.data_descriptions[i].file_path = state.data_files[i])
    /\ [][(config.max_debug_attempts <= 0 /\ node = "execute" /\ node' = "verify")
          => /\ state'.code = state.code
             /\ ~state'.last_execution.success
             /\ state'.last_execution.output = <<>>
             /\ state'.last_execution.error \in {None, <<>>}
             /\ state'.last_execution.traceback \in {None, <<>>}
             /\ state'.execution_results = Append(state.execution_results, <<>>)]_vars

\* a negative budget: the file got an empty description and the first Execute
\* committed the coder's script with the empty observation
C37_Witness ==
    /\ config.max_debug_attempts = -1
    /\ node = "verify"
    /\ Len(state.data_descriptions) = 1
    /\ state.data_descriptions[1].description = <<>>
    /\ state.code = Generated("coder_initial", 0)
    /\ state.execution_results = << <<>> >>

\* C38: ActivityTracker is a thread-safe singleton: under any interleaving of
\* threads that construct ActivityTracker() and call log_activity, all
\* constructions return the same instance, the tracker's fields are
\* initialised exactly once, and no activity logged by one thread is discarded
\* because another thread's construction re-initialised the buffer.
C38_ThreadSafeSingleton ==
    /\ call.allocations <= 1
    /\ call.inits <= 1
    /\ \A t \in TrackerThreads : call.threads[t].pc # "AttributeError"
    /\ call.initialized = "True" =>
           call.activities =
               SubSeq(call.logged,
                      IF Len(call.logged) > max_activities
                      THEN Len(call.logged) - max_activities + 1 ELSE 1,
                      Len(call.logged))

\* C39: after any sequence of log_activity, reset and clear calls from any
\* number of threads, the buffer holds at most max_activities entries, these
\* are the most recently logged activities in logging order, and after reset
\* the buffer is empty with current_agent and current_node cleared and
\* iteration_count 0.
C39_BufferBounded ==
    /\ [](/\ Len(call.activities) <= max_activities
          /\ Len(call.activities) =
                 (IF Len(call.logged) > max_activities
                  THEN max_activities ELSE Len(call.logged))
          /\ \A i \in 1..Len(call.activities) :
                 call.activities[i] =
                     call.logged[Len(call.logged) - Len(call.activities) + i])
    /\ [][\A t \in TrackerThreads :
              (call.threads[t].pc = "reset" /\ call'.threads[t].pc = "idle") =>
                  /\ call'.activities = <<>>
                  /\ call'.current_agent = "None"
                  /\ call'.current_node = "None"
                  /\ call'.iteration_count = 0]_vars

====
